---- MODULE Spec2Model ----
(***************************************************************************)
(* State-machine model of the button-gate firmware core:                   *)
(*   - Button      (src/src/input/button.c)                                *)
(*   - CVOutput    (src/src/output/cv_output.c)                            *)
(*   - Trigger, Gate, Toggle, Divide and Cycle mode handlers               *)
(*                 (src/src/modes/mode_handlers.c)                         *)
(*   - EventProcessor (events/events.h; its implementation is not among    *)
(*                 the sources, the model follows section 4.2 of the       *)
(*                 specification and src/test/unit/fsm/test_events.h)      *)
(* The millisecond clock of the HAL (p_hal->millis) is the variable now.   *)
(*   - FSM engine  (src/src/fsm/fsm.c)                                     *)
(* Each component has its own specification (SpecButton, SpecCV,           *)
(* SpecPulse, SpecTrigger, SpecModes, SpecEvents, SpecFSM); a              *)
(* specification leaves the other components' variables unchanged.         *)
(* SpecNull adds to SpecFSM the calls of the public operations with a null *)
(* handle.                                                                 *)
(***************************************************************************)
EXTENDS Integers, Naturals, Sequences, FiniteSets, TLC

\* ---------------------------------------------------------------- constants
\* include/input/button.h
TAP_TIMEOUT_MS == 500
TAPS_TO_CHANGE == 5
HOLD_TIME_MS == 1000
EDGE_DEBOUNCE_MS == 5

\* include/output/cv_output.h
PULSE_DURATION_MS == 10

\* uint8_t arithmetic (tap_count)
Pow8 == 256
\* modes/mode_handlers.h: length of the Divide output pulse in ms.
OUTPUT_PULSE_MS == 10
\* events/events.h: time a button is pressed before its HOLD event, in ms.
EP_HOLD_THRESHOLD_MS == 500
\* fsm/fsm.h: from_state of a row that matches in every state, and to_state
\* of a row that only runs its action.
FSM_ANY_STATE == 255
FSM_NO_TRANSITION == 254
\* core/states.h: the mode ids, a ring of MODE_COUNT modes from MODE_GATE.
MODE_GATE == 0
MODE_TRIGGER == 1
MODE_TOGGLE == 2
MODE_DIVIDE == 3
MODE_CYCLE == 4
MODE_COUNT == 5
\* config/mode_config.h: the three lookup tables the settings index into,
\* their sizes and the defaults. The header is not among the sources; the
\* tables here have three entries each, in ms (pulse, period) and input
\* pulses (divisor), small enough for the handlers to run through them.
TRIGGER_PULSE_COUNT == 3
TRIGGER_PULSE_VALUES == << 1, 2, 3 >>
TRIGGER_PULSE_DEFAULT == 2
DIVIDE_DIVISOR_COUNT == 3
DIVIDE_DIVISOR_VALUES == << 1, 2, 3 >>
DIVIDE_DEFAULT == 2
CYCLE_TEMPO_COUNT == 3
CYCLE_PERIOD_VALUES == << 2, 4, 6 >>
CYCLE_DEFAULT_PERIOD_MS == 750

\* ------------------------------------------------------------------- bounds
\* Number of clock advances a behaviour of SpecButton may take.
MaxAdvances == 6
\* Last clock value of SpecCV and SpecPulse.
CvMaxTime == 24
\* Last clock value of SpecTrigger, and the longest configured pulse.
TrigMaxTime == 20
MaxPulseMs == 10
\* Mode handlers: horizon of the clock, largest divisor, largest period.
ModeMaxTime == 26
MaxDivisor == 3
MaxPeriod == 9
\* EventProcessor: number of clock advances between the updates.
MaxEpAdvances == 5
\* FSM: events offered to fsm_process_event, state ids given to fsm_set_state.
MaxFsmEvent == 6
MaxFsmStateId == 3
\* Mode handler dispatch: number of mode_handler_init calls, horizon of the
\* clock.
MaxSelInits == 1
SelMaxTime == 6
\* IOController: number of clock advances a behaviour may take.
MaxIoAdvances == 7
\* IOController: number of mode changes a behaviour may take when the unit
\* tests' shortcut for the config gesture is used.
MaxIoChanges == 3
\* Button gestures: number of clock advances a behaviour with two config
\* gestures may take.
MaxGestureAdvances == 11

\* The millisecond clock is a uint32_t counter. TLC's integers cannot hold
\* 2^32, so the counter is modelled with its width scaled down: it counts
\* modulo ClockModulus, which is far above every clock value the
\* specifications that start at 0 reach.
ClockModulus == 1048576
\* Wrap-around: the clock starts at most WrapLead ms before it wraps to 0 and
\* runs for WrapMaxTicks ms.
WrapLead == 3
WrapMaxTicks == 14
\* hal_millis: interrupt steps in one behaviour and the ticks one step counts.
MaxMillisSteps == 6
MillisTickSteps == {1, 2, 32768, 65533}
\* Number of values of a uint16_t.
WORD_MODULUS == 65536
\* "Must be called at least once every 65 seconds": the longest run of ticks
\* between two reads that the overflow test still detects.
MAX_TICKS_BETWEEN_READS == 65535
\* The settings in EEPROM (include/app_init.h).
EEPROM_MAGIC_ADDR == 0
EEPROM_SCHEMA_ADDR == 2
EEPROM_SETTINGS_ADDR == 3
EEPROM_CHECKSUM_ADDR == 16
EEPROM_MAGIC_VALUE == 18251
SETTINGS_SCHEMA_VERSION == 1
\* sizeof(AppSettings): four bytes and reserved[4], packed.
APP_SETTINGS_SIZE == 8
\* Number of values of a uint8_t.
BYTE_MODULUS == 256
\* Bytes changed behind the program's back in one behaviour, the addresses
\* they are at, and the records the caller saves.
MaxCorruptions == 1
CorruptAddrs == {0, 1, 2, 3, 10, 16}
SavedSettings ==
    [mode : 0 .. MODE_COUNT, cv_function : {1}, param1 : {0, 255},
     param2 : {7}, reserved : {<< 0, 0, 0, 0 >>, << 0, 0, 0, 165 >>}]

\* Variant of the subtraction in signed arithmetic, without wrap-around.
Sub32Signed(a, b) == a - b

\* Unsigned subtraction a - b of two clock readings, modulo the width of the
\* counter.
Sub32(a, b) == (a - b) % ClockModulus

\* The time steps between calls that the Button model explores: both sides
\* of the debounce, tap-window and hold boundaries.
ButtonTimeSteps ==
    { EDGE_DEBOUNCE_MS, EDGE_DEBOUNCE_MS + 1,
      TAP_TIMEOUT_MS, TAP_TIMEOUT_MS + 1,
      HOLD_TIME_MS - 1, HOLD_TIME_MS }

VARIABLES
    now,              \* p_hal->millis()
    op,               \* name of the operation that ran last
    advances,         \* number of clock advances so far (bounded)
    \* --- Button fields (include/input/button.h, struct Button)
    raw_state, pressed, last_state, rising_edge, falling_edge,
    config_action, tap_count, last_rise_time, last_fall_time,
    \* --- function-local statics of button_detect_config_action
    last_tap_time, counting_hold,
    \* --- history of the reported rising edges since the last reset
    obs_lastRise,     \* clock of the last reported rising edge, -1: none
    obs_run,          \* reported rising edges in a row, each within
                      \* TAP_TIMEOUT_MS of the one before
    obs_done,         \* an update at least HOLD_TIME_MS after the last
                      \* rising edge has already run with the button pressed
    obs_raised,       \* number of updates that raised config_action
    \* --- CVOutput fields (include/output/cv_output.h, struct CVOutput)
    cv_state, cv_pulse_start_time, cv_pulse_active, cv_last_input_state,
    cv_pin,           \* level of the output pin written through the HAL
    obs_cvPrevIn,     \* input of the previous cv_output_update_pulse
    obs_cvRise,       \* clock reading at the last rising edge of the input of
                      \* cv_output_update_pulse, -1: none
    obs_cvEdge,       \* clock of the rising edge that began the pulse whose
                      \* PULSE_DURATION_MS have not yet run out at a call of
                      \* cv_output_update_pulse, -1 if there is none
    \* --- TriggerContext fields and the results of trigger_process
    trig_output_state, trig_last_input, trig_pulse_start,
    trig_pulse_duration_ms,
    trig_output,      \* *output written by the last trigger_process
    trig_changed,     \* value returned by the last trigger_process
    trig_pending,     \* trigger_process has not yet run at the clock now
    \* --- history of the inputs given to trigger_process
    obs_trigPrevIn,   \* input of the previous call
    obs_trigRise,     \* clock of the most recent rising edge, -1: none
    obs_trigRetrig,   \* that edge arrived while the output was high
    \* --- mode_handler_process: the mode and the results of the last call
    mh_mode,          \* mode the context was initialised for
    mh_input,         \* input given to the last call (FALSE before it)
    mh_output,        \* *output written by the last call
    mh_changed,       \* value returned by the last call
    mh_pending,       \* mode_handler_process has not yet run at the clock now
    \* --- GateContext, ToggleContext, DivideContext, CycleContext fields
    gate_output_state,
    tog_output_state, tog_last_input,
    div_output_state, div_last_input, div_counter, div_divisor,
    div_pulse_start,
    cyc_output_state, cyc_running, cyc_last_toggle, cyc_phase, cyc_period_ms,
    \* --- history of the calls of mode_handler_process
    obs_mhRises,      \* rising edges of the input so far
    obs_divNth,       \* clock of the last edge whose number is a multiple
                      \* of the divisor, -1: none
    obs_divPulses,    \* low-to-high transitions of the Divide output so far
    obs_divMerged,    \* such edges that arrived while the output was high
    obs_cycRise,      \* clock of the last low-to-high toggle of Cycle, -1: none
    obs_cycPeriod,    \* time between the last two low-to-high toggles, -1: none
    \* --- EventProcessor state: last levels, holding flags, press times
    ep_a_pressed, ep_b_pressed, ep_a_holding, ep_b_holding,
    ep_a_press_time, ep_b_press_time, ep_cv_last,
    ep_event,         \* Event returned by the last event_processor_update
    ep_advances,      \* number of clock advances so far (bounded)
    \* --- history of the inputs and events of event_processor_update
    obs_aSince,       \* clock of the update that saw A go down, -1: A is up
    obs_bSince,       \* the same for B
    obs_aHolds,       \* HOLD-class events emitted for the current press of A
    obs_bHolds,       \* the same for B
    \* --- FSM fields (fsm/fsm.h, struct FSM) and the results of the last call
    fsm_current_state, fsm_initial_state, fsm_active,
    fsm_event,        \* event given to the last fsm_process_event
    fsm_ret,          \* value returned by the last fsm_process_event
    fsm_log,          \* hooks called by the last operation, in order, each
                      \* with the current_state it could see
    obs_fsmRow,       \* row executed by the last fsm_process_event, 0: none
    obs_fsmTarget,    \* state id given to the last fsm_set_state, -1: none
    \* --- the last call of a public operation with a null handle
    null_op,          \* name of the operation, "none" before the first
    null_outcome,     \* "noop": returned at once; "fault": the null pointer
                      \* was dereferenced and the access trapped; "corrupt":
                      \* it was dereferenced and the access went through
    null_ret,         \* value returned by a call that was a no-op
    \* --- the dispatch of mode_handler_init / _process / _get_led
    sel_mode,         \* mode id the context was initialised with (uint8_t)
    sel_settings,     \* settings given to that mode_handler_init: whether
                      \* the pointer was not null, and the three indices
    sel_fb,           \* LEDFeedback written by the last mode_handler_get_led
    sel_inits,        \* number of mode_handler_init calls so far
    \* --- IOController fields (include/controller/io_controller.h); its
    \* button and cv_output are the Button and the CVOutput above
    io_mode, io_ignore_pressed,
    io_led_top, io_led_bottom, io_led_out,   \* LED pins written through the HAL
    io_advances,      \* number of clock advances so far (bounded)
    obs_ioSaw,        \* the last io_controller_update saw config_action
    obs_ioWait,       \* a mode change has happened and no io_controller_update
                      \* since has seen a falling edge of the button
    obs_ioChanges,    \* number of mode changes so far
    \* a second Button, updated in the same loop as the first
    b_raw_state, b_pressed, b_last_state, b_rising_edge, b_falling_edge,
    b_config_action, b_tap_count, b_last_rise_time, b_last_fall_time,
    \* the clock as an observer outside the program sees it
    obs_ticks,        \* milliseconds since the behaviour began
    obs_clock0,       \* reading of the clock when the behaviour began
    \* --- the millisecond counter of the AVR build (src/hardware/hal.c)
    timer0_millis_low,   \* volatile uint16_t, incremented by the interrupt
    timer0_millis_high,  \* uint16_t, extended by hal_millis
    timer0_millis_last,  \* uint16_t, the low word hal_millis read last
    millis_pc,        \* "idle", or "ret": hal_millis has enabled interrupts
                      \* again and has not returned yet
    millis_low,       \* the local variable low of the call in progress
    millis_ret,       \* value the last hal_millis returned, -1 before it
    obs_millisPrev,   \* value the call before that returned, -1 if none
    obs_millisTotal,  \* number of times the interrupt handler has run
    obs_millisAtRead, \* that number when the last call read the low word
    obs_millisSince,  \* ticks since the last call read the low word
    obs_millisLate,   \* more than 65535 ticks have passed between two reads
    obs_millisSteps,  \* number of interrupt steps so far (bounded)
    \* --- the settings in EEPROM (src/app_init.c)
    eeprom,           \* bytes at addresses 0 .. EEPROM_CHECKSUM_ADDR
    app_settings,     \* the caller's AppSettings (main.c, static settings)
    app_result,       \* AppInitResult of the last app_init_run, "none" before
    app_reset,        \* that run found the factory reset requested
    obs_saved,        \* the record given to the last app_init_save_settings
    obs_corruptions   \* number of bytes changed behind the program's back

buttonVars == << raw_state, pressed, last_state, rising_edge, falling_edge,
                 config_action, tap_count, last_rise_time, last_fall_time,
                 last_tap_time, counting_hold >>
obsVars == << obs_lastRise, obs_run, obs_done, obs_raised >>
cvVars == << cv_state, cv_pulse_start_time, cv_pulse_active,
             cv_last_input_state, cv_pin, obs_cvPrevIn, obs_cvEdge,
             obs_cvRise >>
trigVars == << trig_output_state, trig_last_input, trig_pulse_start,
               trig_pulse_duration_ms, trig_output, trig_changed, trig_pending,
               obs_trigPrevIn, obs_trigRise, obs_trigRetrig >>
mhVars == << mh_mode, mh_input, mh_output, mh_changed, mh_pending >>
gateVars == << gate_output_state >>
togVars == << tog_output_state, tog_last_input >>
divVars == << div_output_state, div_last_input, div_counter, div_divisor,
              div_pulse_start >>
cycVars == << cyc_output_state, cyc_running, cyc_last_toggle, cyc_phase,
              cyc_period_ms >>
obsModeVars == << obs_mhRises, obs_divNth, obs_divPulses, obs_divMerged,
                 obs_cycRise, obs_cycPeriod >>
buttonAll == << advances, buttonVars, obsVars >>
modeAll == << mhVars, gateVars, togVars, divVars, cycVars, obsModeVars >>
epVars == << ep_a_pressed, ep_b_pressed, ep_a_holding, ep_b_holding,
             ep_a_press_time, ep_b_press_time, ep_cv_last, ep_event >>
obsEpVars == << obs_aSince, obs_bSince, obs_aHolds, obs_bHolds >>
epAll == << ep_advances, epVars, obsEpVars >>
fsmVars == << fsm_current_state, fsm_initial_state, fsm_active, fsm_event,
              fsm_ret, fsm_log, obs_fsmRow, obs_fsmTarget >>
\* The components added after Button, CVOutput and Trigger.
nullVars == << null_op, null_outcome, null_ret >>
selVars == << sel_mode, sel_settings, sel_fb, sel_inits >>
ioVars == << io_mode, io_ignore_pressed, io_led_top, io_led_bottom, io_led_out,
             io_advances, obs_ioSaw, obs_ioWait, obs_ioChanges >>
buttonBVars == << b_raw_state, b_pressed, b_last_state, b_rising_edge,
                  b_falling_edge, b_config_action, b_tap_count,
                  b_last_rise_time, b_last_fall_time >>
\* The components that share nothing with the others.
clockObsVars == << obs_ticks, obs_clock0 >>
millisVars == << timer0_millis_low, timer0_millis_high, timer0_millis_last,
                millis_pc, millis_low, millis_ret, obs_millisPrev,
                obs_millisTotal, obs_millisAtRead, obs_millisSince,
                obs_millisLate, obs_millisSteps >>
appVars == << eeprom, app_settings, app_result, app_reset, obs_saved,
             obs_corruptions >>
restVars == << millisVars, appVars >>
otherVars == << buttonBVars, clockObsVars, restVars >>
engineVars == << modeAll, epAll, fsmVars, nullVars, selVars, ioVars,
                 otherVars >>
\* Everything the Gate, Toggle, Divide and Cycle handlers never touch.
notModes == << buttonAll, cvVars, trigVars, epAll, fsmVars, nullVars,
              selVars, ioVars, otherVars >>
\* Everything the EventProcessor never touches.
notEvents == << buttonAll, cvVars, trigVars, modeAll, fsmVars, nullVars,
              selVars, ioVars, otherVars >>
\* Everything the FSM never touches.
notFSM == << now, buttonAll, cvVars, trigVars, modeAll, epAll, nullVars,
              selVars, ioVars, otherVars >>
\* Everything a call with a null handle has no pointer to.
notNull == << now, buttonAll, cvVars, trigVars, modeAll, epAll, fsmVars,
             selVars, ioVars, otherVars >>
vars == << now, op, buttonAll, cvVars, trigVars, engineVars >>

\* ------------------------------------------------------------------- Button

\* Variant of button_has_rising_edge comparing with >= instead of >.
ButtonHasRisingEdgeInclusive(raw, last, lrt, t) ==
    raw /\ ~last /\ Sub32(t, lrt) >= EDGE_DEBOUNCE_MS

\* Variant of button_has_rising_edge without the debounce window.
ButtonHasRisingEdgeNoDebounce(raw, last, lrt, t) ==
    raw /\ ~last

\* button_has_rising_edge: the value returned; the caller stores the clock in
\* last_rise_time when it is TRUE.
ButtonHasRisingEdge(raw, last, lrt, t) ==
    raw /\ ~last /\ Sub32(t, lrt) > EDGE_DEBOUNCE_MS

\* button_has_falling_edge
ButtonHasFallingEdge(raw, last, lft, t) ==
    ~raw /\ last /\ Sub32(t, lft) > EDGE_DEBOUNCE_MS

\* Variant of the rising-edge branch comparing with < instead of <=.
DetectOnRiseExclusive(rise, tc, ltt, ch, t) ==
    IF rise
    THEN IF Sub32(t, ltt) < TAP_TIMEOUT_MS
         THEN [tc |-> (tc + 1) % Pow8,
               ch |-> IF (tc + 1) % Pow8 >= TAPS_TO_CHANGE THEN TRUE ELSE ch,
               ltt |-> t]
         ELSE [tc |-> 1, ch |-> ch, ltt |-> t]
    ELSE [tc |-> tc, ch |-> ch, ltt |-> ltt]

\* button_detect_config_action, first block: the rising-edge branch.
\* Returns the tap count, last_tap_time and counting_hold after it.
DetectOnRise(rise, tc, ltt, ch, t) ==
    IF rise
    THEN IF Sub32(t, ltt) <= TAP_TIMEOUT_MS
         THEN [tc |-> (tc + 1) % Pow8,
               ch |-> IF (tc + 1) % Pow8 >= TAPS_TO_CHANGE THEN TRUE ELSE ch,
               ltt |-> t]
         ELSE [tc |-> 1, ch |-> ch, ltt |-> t]
    ELSE [tc |-> tc, ch |-> ch, ltt |-> ltt]

\* Variant of the hold check that keeps counting after the action.
DetectHoldKeepsCounting(s, isPressed, t) ==
    IF s.ch /\ isPressed /\ Sub32(t, s.ltt) >= HOLD_TIME_MS
    THEN [tc |-> s.tc, ch |-> TRUE, ltt |-> s.ltt, action |-> TRUE]
    ELSE [tc |-> s.tc, ch |-> s.ch, ltt |-> s.ltt, action |-> FALSE]

\* Variant of the hold check comparing with > instead of >=.
DetectHoldExclusive(s, isPressed, t) ==
    IF s.ch /\ isPressed /\ Sub32(t, s.ltt) > HOLD_TIME_MS
    THEN [tc |-> 0, ch |-> FALSE, ltt |-> s.ltt, action |-> TRUE]
    ELSE [tc |-> s.tc, ch |-> s.ch, ltt |-> s.ltt, action |-> FALSE]

\* button_detect_config_action, second block: the hold check.
DetectHold(s, isPressed, t) ==
    IF s.ch /\ isPressed /\ Sub32(t, s.ltt) >= HOLD_TIME_MS
    THEN [tc |-> 0, ch |-> FALSE, ltt |-> s.ltt, action |-> TRUE]
    ELSE [tc |-> s.tc, ch |-> s.ch, ltt |-> s.ltt, action |-> FALSE]

\* Variant of the released branch that leaves counting_hold as it is.
DetectReleasedKeepsHold(s, isPressed, t) ==
    IF ~isPressed
    THEN [tc |-> IF Sub32(t, s.ltt) > TAP_TIMEOUT_MS THEN 0 ELSE s.tc,
          ch |-> s.ch, ltt |-> s.ltt, action |-> s.action]
    ELSE s

\* button_detect_config_action, third block: the released branch.
DetectReleased(s, isPressed, t) ==
    IF ~isPressed
    THEN [tc |-> IF Sub32(t, s.ltt) > TAP_TIMEOUT_MS THEN 0 ELSE s.tc,
          ch |-> FALSE, ltt |-> s.ltt, action |-> s.action]
    ELSE s

\* button_detect_config_action as a whole.
ButtonDetectConfigAction(rise, isPressed, tc, ltt, ch, t) ==
    DetectReleased(DetectHold(DetectOnRise(rise, tc, ltt, ch, t), isPressed, t),
                   isPressed, t)

\* Variant of button_reset that also clears config_action.
ButtonResetFieldsAndConfig ==
    /\ raw_state' = FALSE
    /\ pressed' = FALSE
    /\ last_state' = FALSE
    /\ rising_edge' = FALSE
    /\ falling_edge' = FALSE
    /\ tap_count' = 0
    /\ last_rise_time' = 0
    /\ last_fall_time' = 0
    /\ config_action' = FALSE
    /\ UNCHANGED << last_tap_time, counting_hold >>

\* button_reset: the fields it assigns (config_action and the statics of
\* button_detect_config_action are not among them).
ButtonResetFields ==
    /\ raw_state' = FALSE
    /\ pressed' = FALSE
    /\ last_state' = FALSE
    /\ rising_edge' = FALSE
    /\ falling_edge' = FALSE
    /\ tap_count' = 0
    /\ last_rise_time' = 0
    /\ last_fall_time' = 0
    /\ UNCHANGED << config_action, last_tap_time, counting_hold >>

\* Variant of button_update that does not clear the edge flags first.
ButtonKeptEdges == [rising |-> rising_edge, falling |-> falling_edge]

\* The flags button_update starts from: rising_edge and falling_edge are
\* cleared before the edge detectors run.
ButtonClearedEdges == [rising |-> FALSE, falling |-> FALSE]

\* button_update with the pin sampled as pin.
ButtonUpdate(pin) ==
    LET rise == ButtonHasRisingEdge(pin, last_state, last_rise_time, now)
        fall == ButtonHasFallingEdge(pin, last_state, last_fall_time, now)
        p1   == IF rise THEN TRUE ELSE pressed
        p2   == IF fall THEN FALSE ELSE p1
        re   == IF rise THEN TRUE ELSE ButtonClearedEdges.rising
        fe   == IF fall THEN TRUE ELSE ButtonClearedEdges.falling
        d    == ButtonDetectConfigAction(re, p2, tap_count, last_tap_time,
                                         counting_hold, now)
    IN  /\ raw_state' = pin
        /\ rising_edge' = re
        /\ falling_edge' = fe
        /\ last_rise_time' = IF rise THEN now ELSE last_rise_time
        /\ last_fall_time' = IF fall THEN now ELSE last_fall_time
        /\ pressed' = p2
        /\ tap_count' = d.tc
        /\ last_tap_time' = d.ltt
        /\ counting_hold' = d.ch
        /\ config_action' = IF d.action THEN TRUE ELSE config_action
        /\ last_state' = p2
        \* history
        /\ obs_lastRise' = IF re THEN now ELSE obs_lastRise
        /\ obs_run' = IF re
                      THEN IF obs_lastRise # -1
                              /\ now - obs_lastRise <= TAP_TIMEOUT_MS
                           THEN obs_run + 1 ELSE 1
                      ELSE obs_run
        /\ obs_done' = IF re THEN FALSE
                       ELSE obs_done
                            \/ (p2 /\ obs_lastRise # -1
                                /\ now - obs_lastRise >= HOLD_TIME_MS)
        /\ obs_raised' = IF d.action /\ ~config_action THEN obs_raised + 1
                          ELSE obs_raised
        /\ op' = "update"
        /\ UNCHANGED << now, advances, cvVars, trigVars, engineVars >>

\* button_reset
ButtonReset ==
    /\ ButtonResetFields
    /\ obs_lastRise' = -1
    /\ obs_run' = 0
    /\ obs_done' = FALSE
    /\ obs_raised' = obs_raised
    /\ op' = "reset"
    /\ UNCHANGED << now, advances, cvVars, trigVars, engineVars >>

\* button_consume_config_action
ButtonConsumeConfigAction ==
    /\ config_action' = FALSE
    /\ op' = "consume"
    /\ UNCHANGED << now, advances, raw_state, pressed, last_state, rising_edge,
                    falling_edge, tap_count, last_rise_time, last_fall_time,
                    last_tap_time, counting_hold, obsVars, cvVars, trigVars,
                    engineVars >>

\* The HAL clock moves on between two calls (advance_time of the mock HAL).
ButtonAdvanceTime(d) ==
    /\ advances < MaxAdvances
    /\ now' = now + d
    /\ advances' = advances + 1
    /\ op' = "advance"
    /\ UNCHANGED << buttonVars, obsVars, cvVars, trigVars, engineVars >>

\* The HAL clock moves on between two calls, far enough for two gestures.
GestureAdvanceTime(d) ==
    /\ advances < MaxGestureAdvances
    /\ now' = now + d
    /\ advances' = advances + 1
    /\ op' = "advance"
    /\ UNCHANGED << buttonVars, obsVars, cvVars, trigVars, engineVars >>

\* button_init followed by nothing: the state the tests start from.
InitButton ==
    /\ raw_state = FALSE
    /\ pressed = FALSE
    /\ last_state = FALSE
    /\ rising_edge = FALSE
    /\ falling_edge = FALSE
    /\ config_action = FALSE
    /\ tap_count = 0
    /\ last_rise_time = 0
    /\ last_fall_time = 0
    /\ last_tap_time = 0
    /\ counting_hold = FALSE
    /\ obs_lastRise = -1
    /\ obs_run = 0
    /\ obs_done = FALSE
    /\ obs_raised = 0

\* ----------------------------------------------------------------- CVOutput

\* cv_output_set: state and pin after it.
CvSetFields ==
    /\ cv_state' = TRUE
    /\ cv_pin' = TRUE

\* cv_output_clear: state and pin after it.
CvClearFields ==
    /\ cv_state' = FALSE
    /\ cv_pin' = FALSE

\* cv_output_init
CvInit ==
    /\ cv_state' = FALSE
    /\ cv_pulse_start_time' = 0
    /\ cv_pulse_active' = FALSE
    /\ cv_last_input_state' = FALSE
    /\ obs_cvPrevIn' = FALSE
    /\ obs_cvEdge' = -1
    /\ obs_cvRise' = -1
    /\ op' = "cv_init"
    /\ UNCHANGED << now, cv_pin, buttonAll, trigVars, engineVars >>

\* cv_output_reset
CvReset ==
    /\ cv_state' = FALSE
    /\ cv_pulse_start_time' = 0
    /\ cv_pulse_active' = FALSE
    /\ cv_last_input_state' = FALSE
    /\ obs_cvPrevIn' = FALSE
    /\ obs_cvEdge' = -1
    /\ obs_cvRise' = -1
    /\ cv_pin' = FALSE
    /\ op' = "cv_reset"
    /\ UNCHANGED << now, buttonAll, trigVars, engineVars >>

\* cv_output_set
CvSet ==
    /\ CvSetFields
    /\ op' = "cv_set"
    /\ UNCHANGED << now, cv_pulse_start_time, cv_pulse_active,
                    cv_last_input_state, obs_cvPrevIn, obs_cvEdge, obs_cvRise,
                    buttonAll,
                    trigVars, engineVars >>

\* cv_output_clear
CvClear ==
    /\ CvClearFields
    /\ op' = "cv_clear"
    /\ UNCHANGED << now, cv_pulse_start_time, cv_pulse_active,
                    cv_last_input_state, obs_cvPrevIn, obs_cvEdge, obs_cvRise,
                    buttonAll,
                    trigVars, engineVars >>

\* cv_output_update_gate
CvUpdateGate(input_state) ==
    /\ IF input_state THEN CvSetFields ELSE CvClearFields
    /\ op' = "cv_gate"
    /\ UNCHANGED << now, cv_pulse_start_time, cv_pulse_active,
                    cv_last_input_state, obs_cvPrevIn, obs_cvEdge, obs_cvRise,
                    buttonAll,
                    trigVars, engineVars >>

\* cv_output_update_pulse, first block: a rising edge of the input starts a
\* pulse. Returns the pulse bookkeeping, state and pin after it.
CvPulseOnRise(input_state, t) ==
    IF input_state /\ ~cv_last_input_state
    THEN [start |-> t, active |-> TRUE, state |-> TRUE, pin |-> TRUE]
    ELSE [start |-> cv_pulse_start_time, active |-> cv_pulse_active,
          state |-> cv_state, pin |-> cv_pin]

\* cv_output_update_pulse, second block: the expiry check.
CvPulseExpire(s, t) ==
    IF s.active /\ Sub32(t, s.start) >= PULSE_DURATION_MS
    THEN [start |-> s.start, active |-> FALSE, state |-> FALSE, pin |-> FALSE]
    ELSE s

\* cv_output_update_pulse
CvUpdatePulse(input_state) ==
    LET s == CvPulseExpire(CvPulseOnRise(input_state, now), now)
    IN  /\ cv_pulse_start_time' = s.start
        /\ cv_pulse_active' = s.active
        /\ cv_state' = s.state
        /\ cv_pin' = s.pin
        /\ cv_last_input_state' = input_state
        \* history
        /\ obs_cvPrevIn' = input_state
        /\ obs_cvRise' = IF input_state /\ ~obs_cvPrevIn THEN now
                          ELSE obs_cvRise
        /\ obs_cvEdge' = IF input_state /\ ~obs_cvPrevIn /\ obs_cvEdge = -1
                         THEN now
                         ELSE IF obs_cvEdge # -1
                                 /\ now >= obs_cvEdge + PULSE_DURATION_MS
                              THEN -1
                              ELSE obs_cvEdge
        /\ op' = "cv_pulse"
        /\ UNCHANGED << now, buttonAll, trigVars, engineVars >>

\* cv_output_update_toggle
CvUpdateToggle(input_state) ==
    /\ IF input_state /\ ~cv_last_input_state
       THEN IF ~cv_state THEN CvSetFields ELSE CvClearFields
       ELSE UNCHANGED << cv_state, cv_pin >>
    /\ cv_last_input_state' = input_state
    /\ op' = "cv_toggle"
    /\ UNCHANGED << now, cv_pulse_start_time, cv_pulse_active,
                    obs_cvPrevIn, obs_cvEdge, obs_cvRise, buttonAll, trigVars,
                    engineVars >>

\* The HAL clock moves on by one millisecond between two CVOutput calls.
CvAdvanceTime ==
    /\ now < CvMaxTime
    /\ now' = now + 1
    /\ op' = "advance"
    /\ UNCHANGED << buttonAll, cvVars, trigVars, engineVars >>

\* cv_output_init on a fresh CVOutput, the pin low.
InitCV ==
    /\ cv_state = FALSE
    /\ cv_pulse_start_time = 0
    /\ cv_pulse_active = FALSE
    /\ cv_last_input_state = FALSE
    /\ cv_pin = FALSE
    /\ obs_cvPrevIn = FALSE
    /\ obs_cvEdge = -1
    /\ obs_cvRise = -1

\* ------------------------------------------------------------- Trigger mode

\* Variant of the rising-edge block that ignores an edge while the output is
\* high (no restart).
TriggerOnRiseNoRestart(input, t) ==
    IF input /\ ~trig_last_input /\ ~trig_output_state
    THEN [out |-> TRUE, start |-> t, changed |-> TRUE]
    ELSE [out |-> trig_output_state, start |-> trig_pulse_start,
          changed |-> FALSE]

\* trigger_process, first block: a rising edge starts (or restarts) the pulse.
TriggerOnRise(input, t) ==
    IF input /\ ~trig_last_input
    THEN [out |-> TRUE, start |-> t, changed |-> TRUE]
    ELSE [out |-> trig_output_state, start |-> trig_pulse_start,
          changed |-> FALSE]

\* trigger_process, second block: the expiry check.
TriggerExpire(s, t) ==
    IF s.out /\ Sub32(t, s.start) >= trig_pulse_duration_ms
    THEN [out |-> FALSE, start |-> s.start, changed |-> TRUE]
    ELSE s

\* trigger_process, called once in the millisecond now.
TriggerProcess(input) ==
    LET s == TriggerExpire(TriggerOnRise(input, now), now)
        edge == input /\ ~obs_trigPrevIn
    IN  /\ trig_pending
        /\ trig_output_state' = s.out
        /\ trig_pulse_start' = s.start
        /\ trig_last_input' = input
        /\ trig_output' = s.out
        /\ trig_changed' = s.changed
        /\ trig_pending' = FALSE
        \* history
        /\ obs_trigPrevIn' = input
        /\ obs_trigRise' = IF edge THEN now ELSE obs_trigRise
        /\ obs_trigRetrig' = IF edge THEN trig_output ELSE obs_trigRetrig
        /\ op' = "trigger"
        /\ UNCHANGED << now, trig_pulse_duration_ms, buttonAll, cvVars,
                        engineVars >>

\* The next millisecond begins: trigger_process is due again.
TriggerClock ==
    /\ ~trig_pending
    /\ now < TrigMaxTime
    /\ now' = now + 1
    /\ trig_pending' = TRUE
    /\ op' = "advance"
    /\ UNCHANGED << trig_output_state, trig_last_input, trig_pulse_start,
                    trig_pulse_duration_ms, trig_output, trig_changed,
                    obs_trigPrevIn, obs_trigRise, obs_trigRetrig,
                    buttonAll, cvVars, engineVars >>

\* trigger_init with a pulse duration of d ms.
InitTrigger(d) ==
    /\ trig_output_state = FALSE
    /\ trig_last_input = FALSE
    /\ trig_pulse_start = 0
    /\ trig_pulse_duration_ms = d
    /\ trig_output = FALSE
    /\ trig_changed = FALSE
    /\ trig_pending = TRUE
    /\ obs_trigPrevIn = FALSE
    /\ obs_trigRise = -1
    /\ obs_trigRetrig = FALSE

\* ------------------------------------- Gate, Toggle, Divide and Cycle modes

\* What one call of mode_handler_process leaves behind in every mode: the
\* input, *output and the return value, and the call of this millisecond
\* is done. The rising edges of the input are counted for the history.
ModeCallDone(input, out, changed) ==
    /\ mh_pending
    /\ mh_input' = input
    /\ mh_output' = out
    /\ mh_changed' = changed
    /\ mh_pending' = FALSE
    /\ obs_mhRises' = IF input /\ ~mh_input THEN obs_mhRises + 1
                      ELSE obs_mhRises
    /\ UNCHANGED << now, mh_mode, notModes >>

\* Variant of gate_process that reports a change on every high input.
GateChangedWhenHigh(input) == input

\* gate_process: the value it returns.
GateChanged(input) == gate_output_state # input

\* gate_process: the output follows the input.
GateProcess(input) ==
    /\ mh_mode = "gate"
    /\ gate_output_state' = input
    /\ ModeCallDone(input, input, GateChanged(input))
    /\ op' = "gate"
    /\ UNCHANGED << togVars, divVars, cycVars, obs_divNth, obs_divPulses,
                    obs_divMerged, obs_cycRise, obs_cycPeriod >>

\* Variant of the edge test of toggle_process: every high input toggles.
ToggleOnHigh(input) == input

\* toggle_process: the edge test.
ToggleOnRise(input) == input /\ ~tog_last_input

\* toggle_process: a rising edge flips the output.
ToggleProcess(input) ==
    LET out == IF ToggleOnRise(input) THEN ~tog_output_state
               ELSE tog_output_state
    IN  /\ mh_mode = "toggle"
        /\ tog_output_state' = out
        /\ tog_last_input' = input
        /\ ModeCallDone(input, out, ToggleOnRise(input))
        /\ op' = "toggle"
        /\ UNCHANGED << gateVars, divVars, cycVars, obs_divNth, obs_divPulses,
                        obs_divMerged, obs_cycRise, obs_cycPeriod >>

\* Variant of the rising-edge block of divide_process that fires only when
\* the counter exceeds the divisor.
DivideOnRiseLate(input, t) ==
    LET c == (div_counter + 1) % Pow8
    IN  IF input /\ ~div_last_input
        THEN IF c > div_divisor
             THEN [counter |-> 0, out |-> TRUE, start |-> t, changed |-> TRUE]
             ELSE [counter |-> c, out |-> div_output_state,
                   start |-> div_pulse_start, changed |-> FALSE]
        ELSE [counter |-> div_counter, out |-> div_output_state,
              start |-> div_pulse_start, changed |-> FALSE]

\* divide_process, first block: a rising edge advances the 8-bit counter;
\* the edge that brings it to the divisor resets it and starts the pulse.
DivideOnRise(input, t) ==
    LET c == (div_counter + 1) % Pow8
    IN  IF input /\ ~div_last_input
        THEN IF c >= div_divisor
             THEN [counter |-> 0, out |-> TRUE, start |-> t, changed |-> TRUE]
             ELSE [counter |-> c, out |-> div_output_state,
                   start |-> div_pulse_start, changed |-> FALSE]
        ELSE [counter |-> div_counter, out |-> div_output_state,
              start |-> div_pulse_start, changed |-> FALSE]

\* divide_process, second block: the pulse ends after OUTPUT_PULSE_MS.
DivideExpire(s, t) ==
    IF s.out /\ Sub32(t, s.start) >= OUTPUT_PULSE_MS
    THEN [s EXCEPT !.out = FALSE, !.changed = TRUE]
    ELSE s

\* divide_process, called once in the millisecond now.
DivideProcess(input) ==
    LET s == DivideExpire(DivideOnRise(input, now), now)
        edge == input /\ ~mh_input
        nth == edge /\ (obs_mhRises + 1) % div_divisor = 0
    IN  /\ mh_mode = "divide"
        /\ div_counter' = s.counter
        /\ div_output_state' = s.out
        /\ div_pulse_start' = s.start
        /\ div_last_input' = input
        /\ ModeCallDone(input, s.out, s.changed)
        \* history
        /\ obs_divNth' = IF nth THEN now ELSE obs_divNth
        /\ obs_divPulses' = IF ~mh_output /\ s.out THEN obs_divPulses + 1
                            ELSE obs_divPulses
        /\ obs_divMerged' = IF nth /\ mh_output THEN obs_divMerged + 1
                            ELSE obs_divMerged
        /\ op' = "divide"
        /\ UNCHANGED << div_divisor, gateVars, togVars, cycVars, obs_cycRise,
                        obs_cycPeriod >>

\* cycle_process: half_period, a 16-bit integer division.
CycleHalfPeriod == cyc_period_ms \div 2

\* cycle_process: the toggle test and its assignments.
CycleToggle(t) ==
    IF Sub32(t, cyc_last_toggle) >= CycleHalfPeriod
    THEN [last |-> t, out |-> ~cyc_output_state, changed |-> TRUE]
    ELSE [last |-> cyc_last_toggle, out |-> cyc_output_state,
          changed |-> FALSE]

\* cycle_process: the phase for the LED, an 8-bit value.
CyclePhase(s, t) ==
    LET elapsed == Sub32(t, Sub32(s.last,
                                  IF s.out THEN 0 ELSE CycleHalfPeriod))
        cycle_pos == elapsed % cyc_period_ms
    IN  ((cycle_pos * 255) \div cyc_period_ms) % Pow8

\* cycle_process: everything the call with this input leaves behind.
CycleResult(input) ==
    IF ~cyc_running
    THEN [last |-> cyc_last_toggle, out |-> cyc_output_state,
          phase |-> cyc_phase, output |-> FALSE, changed |-> FALSE]
    ELSE LET s == CycleToggle(now)
         IN  [last |-> s.last, out |-> s.out, phase |-> CyclePhase(s, now),
              output |-> s.out, changed |-> s.changed]

\* cycle_process, called once in the millisecond now.
CycleProcess(input) ==
    LET r == CycleResult(input)
        rise == r.changed /\ r.out
    IN  /\ mh_mode = "cycle"
        /\ cyc_last_toggle' = r.last
        /\ cyc_output_state' = r.out
        /\ cyc_phase' = r.phase
        /\ ModeCallDone(input, r.output, r.changed)
        \* history
        /\ obs_cycRise' = IF rise THEN now ELSE obs_cycRise
        /\ obs_cycPeriod' = IF rise /\ obs_cycRise # -1 THEN now - obs_cycRise
                            ELSE obs_cycPeriod
        /\ op' = "cycle"
        /\ UNCHANGED << cyc_running, cyc_period_ms, gateVars, togVars, divVars,
                        obs_divNth, obs_divPulses, obs_divMerged >>

\* The next millisecond begins: mode_handler_process is due again.
ModeClock ==
    /\ ~mh_pending
    /\ now < ModeMaxTime
    /\ now' = now + 1
    /\ mh_pending' = TRUE
    /\ op' = "advance"
    /\ UNCHANGED << mh_mode, mh_input, mh_output, mh_changed, gateVars,
                    togVars, divVars, cycVars, obsModeVars, notModes >>

\* gate_init, toggle_init, divide_init with the divisor n and cycle_init
\* with the period p, for a context that is used in the mode m.
InitModeHandlers(m, n, p) ==
    /\ mh_mode = m
    /\ mh_input = FALSE
    /\ mh_output = FALSE
    /\ mh_changed = FALSE
    /\ mh_pending = TRUE
    /\ gate_output_state = FALSE
    /\ tog_output_state = FALSE
    /\ tog_last_input = FALSE
    /\ div_output_state = FALSE
    /\ div_last_input = FALSE
    /\ div_counter = 0
    /\ div_divisor = n
    /\ div_pulse_start = 0
    /\ cyc_output_state = FALSE
    /\ cyc_running = TRUE
    /\ cyc_last_toggle = 0
    /\ cyc_phase = 0
    /\ cyc_period_ms = p
    /\ obs_mhRises = 0
    /\ obs_divNth = -1
    /\ obs_divPulses = 0
    /\ obs_divMerged = 0
    /\ obs_cycRise = -1
    /\ obs_cycPeriod = -1

\* ------------------------------------------------ mode handler dispatch

\* The mode ids offered to the dispatch: the five modes, MODE_COUNT and the
\* largest uint8_t.
ModeIds == { MODE_GATE, MODE_TRIGGER, MODE_TOGGLE, MODE_DIVIDE, MODE_CYCLE,
             MODE_COUNT, Pow8 - 1 }

\* The settings offered to mode_handler_init: a null pointer (the indices
\* are then never read), or a record whose indices are the last of a table,
\* the table size and the largest uint8_t.
SettingsIdx == { TRIGGER_PULSE_COUNT - 1, TRIGGER_PULSE_COUNT, Pow8 - 1 }
NullSettings ==
    [ present |-> FALSE, trigger_pulse_idx |-> 0, divide_divisor_idx |-> 0,
      cycle_tempo_idx |-> 0 ]
SettingsSet ==
    { NullSettings } \cup
    [ present : {TRUE}, trigger_pulse_idx : SettingsIdx,
      divide_divisor_idx : SettingsIdx, cycle_tempo_idx : SettingsIdx ]

\* The switch of mode_handler_init, _process and _get_led: the handler that
\* the mode id selects.
ModeHandlerOf(mode) ==
    IF mode = MODE_GATE THEN "gate"
    ELSE IF mode = MODE_TRIGGER THEN "trigger"
    ELSE IF mode = MODE_TOGGLE THEN "toggle"
    ELSE IF mode = MODE_DIVIDE THEN "divide"
    ELSE IF mode = MODE_CYCLE THEN "cycle"
    ELSE "gate"

\* Variant of the table lookup in which an index beyond the table is
\* clamped to its last entry.
SettingsLookupClamped(settings, idx, table, count, default) ==
    IF ~settings.present THEN default
    ELSE IF idx < count THEN table[idx + 1]
    ELSE table[count]

\* trigger_init, divide_init, cycle_init: the value stored for the index
\* idx of the settings, from a table of count entries.
SettingsLookup(settings, idx, table, count, default) ==
    IF settings.present /\ idx < count THEN table[idx + 1]
    ELSE default

\* trigger_init: pulse_duration_ms.
TriggerInitDuration(settings) ==
    SettingsLookup(settings, settings.trigger_pulse_idx,
                   TRIGGER_PULSE_VALUES, TRIGGER_PULSE_COUNT,
                   TRIGGER_PULSE_DEFAULT)

\* divide_init: divisor.
DivideInitDivisor(settings) ==
    SettingsLookup(settings, settings.divide_divisor_idx,
                   DIVIDE_DIVISOR_VALUES, DIVIDE_DIVISOR_COUNT, DIVIDE_DEFAULT)

\* cycle_init: period_ms.
CycleInitPeriod(settings) ==
    SettingsLookup(settings, settings.cycle_tempo_idx,
                   CYCLE_PERIOD_VALUES, CYCLE_TEMPO_COUNT,
                   CYCLE_DEFAULT_PERIOD_MS)

\* mode_handler_init(mode, ctx, settings): the init of the selected handler
\* writes its member of the context.
ModeHandlerInit(mode, settings) ==
    LET h == ModeHandlerOf(mode)
    IN  /\ sel_inits < MaxSelInits
        /\ sel_inits' = sel_inits + 1
        /\ mh_mode' = h
        /\ sel_mode' = mode
        /\ sel_settings' = settings
        /\ gate_output_state' = IF h = "gate" THEN FALSE ELSE gate_output_state
        /\ IF h = "trigger"
           THEN /\ trig_output_state' = FALSE
                /\ trig_last_input' = FALSE
                /\ trig_pulse_start' = 0
                /\ trig_pulse_duration_ms' = TriggerInitDuration(settings)
           ELSE UNCHANGED << trig_output_state, trig_last_input,
                             trig_pulse_start, trig_pulse_duration_ms >>
        /\ IF h = "toggle"
           THEN /\ tog_output_state' = FALSE
                /\ tog_last_input' = FALSE
           ELSE UNCHANGED togVars
        /\ IF h = "divide"
           THEN /\ div_output_state' = FALSE
                /\ div_last_input' = FALSE
                /\ div_counter' = 0
                /\ div_pulse_start' = 0
                /\ div_divisor' = DivideInitDivisor(settings)
           ELSE UNCHANGED divVars
        /\ IF h = "cycle"
           THEN /\ cyc_output_state' = FALSE
                /\ cyc_running' = TRUE
                /\ cyc_last_toggle' = 0
                /\ cyc_phase' = 0
                /\ cyc_period_ms' = CycleInitPeriod(settings)
           ELSE UNCHANGED cycVars
        /\ op' = "mode_handler_init"
        /\ UNCHANGED << now, mh_input, mh_output, mh_changed, mh_pending,
                        trig_output, trig_changed, trig_pending, obs_trigPrevIn,
                        obs_trigRise, obs_trigRetrig, obsModeVars, sel_fb,
                        buttonAll, cvVars, epAll, fsmVars, nullVars, ioVars,
                    otherVars >>

\* mode_handler_process(mode, ctx, input, output) on the context that was
\* initialised with this mode id: the process of the selected handler.
ModeHandlerProcess(mode, input) ==
    LET h == ModeHandlerOf(mode)
    IN  /\ mode = sel_mode
        /\ \/ h = "gate" /\ GateProcess(input)
           \/ h = "trigger" /\ TriggerProcess(input)
           \/ h = "toggle" /\ ToggleProcess(input)
           \/ h = "divide" /\ DivideProcess(input)
           \/ h = "cycle" /\ CycleProcess(input)

\* gate_get_led .. cycle_get_led: the mode colour of the handler and the
\* brightness of the activity LED.
LedFeedback(h) ==
    [ mode_colour |-> h,
      activity_brightness |->
          IF h = "cycle"
          THEN (IF cyc_phase < 128 THEN cyc_phase * 2
                ELSE (255 - cyc_phase) * 2)
          ELSE IF h = "gate" THEN (IF gate_output_state THEN 255 ELSE 0)
          ELSE IF h = "trigger" THEN (IF trig_output_state THEN 255 ELSE 0)
          ELSE IF h = "toggle" THEN (IF tog_output_state THEN 255 ELSE 0)
          ELSE (IF div_output_state THEN 255 ELSE 0) ]

\* mode_handler_get_led(mode, ctx, fb) on the context that was initialised
\* with this mode id.
ModeHandlerGetLed(mode) ==
    /\ mode = sel_mode
    /\ sel_fb' = LedFeedback(ModeHandlerOf(mode))
    /\ op' = "mode_handler_get_led"
    /\ UNCHANGED << now, sel_mode, sel_settings, sel_inits, trigVars, modeAll,
                    buttonAll, cvVars, epAll, fsmVars, nullVars, ioVars,
                    otherVars >>

\* The next millisecond begins: mode_handler_process is due again.
SelectClock ==
    /\ IF mh_mode = "trigger" THEN ~trig_pending ELSE ~mh_pending
    /\ now < SelMaxTime
    /\ now' = now + 1
    /\ trig_pending' = TRUE
    /\ mh_pending' = TRUE
    /\ op' = "advance"
    /\ UNCHANGED << trig_output_state, trig_last_input, trig_pulse_start,
                    trig_pulse_duration_ms, trig_output, trig_changed,
                    obs_trigPrevIn, obs_trigRise, obs_trigRetrig, mh_mode,
                    mh_input, mh_output, mh_changed, gateVars, togVars, divVars,
                    cycVars, obsModeVars, selVars, buttonAll, cvVars, epAll,
                    fsmVars, nullVars, ioVars, otherVars >>

\* Before the first mode_handler_init through the dispatch: the context is
\* the one of the mode it starts in.
InitSelect ==
    /\ sel_mode = (CHOOSE id \in 0..(MODE_COUNT - 1) :
                       ModeHandlerOf(id) = mh_mode)
    /\ sel_settings = NullSettings
    /\ sel_fb = "none"
    /\ sel_inits = 0

\* ------------------------------------------------------------ EventProcessor

\* Variant of the transition of one button in which the hold is due only
\* after more than EP_HOLD_THRESHOLD_MS.
EpTransitionLate(level, last, holding, press_time, t) ==
    IF level /\ ~last THEN "press"
    ELSE IF ~level /\ last THEN (IF holding THEN "release" ELSE "tap")
    ELSE IF level /\ ~holding /\ Sub32(t, press_time) > EP_HOLD_THRESHOLD_MS
         THEN "hold"
    ELSE "none"

\* The transition of one button in an update at the clock t: its level now,
\* its level at the previous update, its holding flag and its press time.
\* A press and a release are edges of the level; the hold is due while the
\* button stays down, is not yet marked holding, and has been down for
\* EP_HOLD_THRESHOLD_MS.
EpTransition(level, last, holding, press_time, t) ==
    IF level /\ ~last THEN "press"
    ELSE IF ~level /\ last THEN (IF holding THEN "release" ELSE "tap")
    ELSE IF level /\ ~holding /\ Sub32(t, press_time) >= EP_HOLD_THRESHOLD_MS
         THEN "hold"
    ELSE "none"

\* Variant of the event of button A in which the two combo gestures are
\* exchanged.
EpEventASwapped(tr, b) ==
    IF tr = "press" THEN "A_PRESS"
    ELSE IF tr = "tap" THEN "A_TAP"
    ELSE IF tr = "release" THEN "A_RELEASE"
    ELSE IF tr = "hold"
         THEN IF b /\ ep_b_pressed /\ ep_b_holding
                 /\ ep_b_press_time < ep_a_press_time
              THEN "MENU_ENTER" ELSE "A_HOLD"
    ELSE "NONE"

\* The event of button A for its transition tr, b the level of B: the hold
\* of A is MODE_CHANGE when B was pressed strictly before A, is marked
\* holding and is still down.
EpEventA(tr, b) ==
    IF tr = "press" THEN "A_PRESS"
    ELSE IF tr = "tap" THEN "A_TAP"
    ELSE IF tr = "release" THEN "A_RELEASE"
    ELSE IF tr = "hold"
         THEN IF b /\ ep_b_pressed /\ ep_b_holding
                 /\ ep_b_press_time < ep_a_press_time
              THEN "MODE_CHANGE" ELSE "A_HOLD"
    ELSE "NONE"

\* The event of button B for its transition tr, a the level of A: the hold
\* of B is MENU_ENTER when A was pressed strictly before B, is marked
\* holding and is still down.
EpEventB(tr, a) ==
    IF tr = "press" THEN "B_PRESS"
    ELSE IF tr = "tap" THEN "B_TAP"
    ELSE IF tr = "release" THEN "B_RELEASE"
    ELSE IF tr = "hold"
         THEN IF a /\ ep_a_pressed /\ ep_a_holding
                 /\ ep_a_press_time < ep_b_press_time
              THEN "MENU_ENTER" ELSE "B_HOLD"
    ELSE "NONE"

\* The event of the CV input: a change of its digital level.
EpEventCV(cv) ==
    IF cv /\ ~ep_cv_last THEN "CV_RISE"
    ELSE IF ~cv /\ ep_cv_last THEN "CV_FALL"
    ELSE "NONE"

\* Variant of the priority order in which button B outranks button A.
EpPriorityBFirst(ea, eb, ec) ==
    IF eb # "NONE" THEN eb ELSE IF ea # "NONE" THEN ea ELSE ec

\* The one event of an update: A outranks B, B outranks CV.
EpPriority(ea, eb, ec) ==
    IF ea # "NONE" THEN ea ELSE IF eb # "NONE" THEN eb ELSE ec

\* Variant of the holding flag that is never cleared by a new press or a
\* release.
EpHoldingSticky(tr, holding, emitted) ==
    IF tr = "hold" /\ emitted THEN TRUE ELSE holding

\* The holding flag of a button after an update: cleared by a press and by
\* a release, set together with the emission of the HOLD-class event.
EpHolding(tr, holding, emitted) ==
    IF tr \in {"press", "tap", "release"} THEN FALSE
    ELSE IF tr = "hold" /\ emitted THEN TRUE
    ELSE holding

\* event_processor_update with the inputs a, b, cv at the clock now.
EventUpdate(a, b, cv) ==
    LET ta == EpTransition(a, ep_a_pressed, ep_a_holding, ep_a_press_time, now)
        tb == EpTransition(b, ep_b_pressed, ep_b_holding, ep_b_press_time, now)
        ea == EpEventA(ta, b)
        eb == EpEventB(tb, a)
        e == EpPriority(ea, eb, EpEventCV(cv))
    IN  /\ ep_event' = e
        /\ ep_a_pressed' = a
        /\ ep_b_pressed' = b
        /\ ep_cv_last' = cv
        /\ ep_a_press_time' = IF ta = "press" THEN now ELSE ep_a_press_time
        /\ ep_b_press_time' = IF tb = "press" THEN now ELSE ep_b_press_time
        /\ ep_a_holding' = EpHolding(ta, ep_a_holding, ea = e)
        /\ ep_b_holding' = EpHolding(tb, ep_b_holding, ea = "NONE")
        \* history
        /\ obs_aSince' = IF ~a THEN -1
                         ELSE IF obs_aSince = -1 THEN now ELSE obs_aSince
        /\ obs_bSince' = IF ~b THEN -1
                         ELSE IF obs_bSince = -1 THEN now ELSE obs_bSince
        /\ obs_aHolds' = IF ~a \/ obs_aSince = -1 THEN 0
                         ELSE IF e \in {"A_HOLD", "MODE_CHANGE"}
                              THEN obs_aHolds + 1 ELSE obs_aHolds
        /\ obs_bHolds' = IF ~b \/ obs_bSince = -1 THEN 0
                         ELSE IF e \in {"B_HOLD", "MENU_ENTER"}
                              THEN obs_bHolds + 1 ELSE obs_bHolds
        /\ op' = "event"
        /\ UNCHANGED << now, ep_advances, notEvents >>

\* Time passes between two updates: 1 ms, or 1 ms less than the threshold.
EventAdvanceTime(d) ==
    /\ ep_advances < MaxEpAdvances
    /\ ep_advances' = ep_advances + 1
    /\ now' = now + d
    /\ op' = "advance"
    /\ UNCHANGED << epVars, obsEpVars, notEvents >>

\* event_processor_init.
InitEvents ==
    /\ ep_a_pressed = FALSE
    /\ ep_b_pressed = FALSE
    /\ ep_a_holding = FALSE
    /\ ep_b_holding = FALSE
    /\ ep_a_press_time = 0
    /\ ep_b_press_time = 0
    /\ ep_cv_last = FALSE
    /\ ep_event = "NONE"
    /\ ep_advances = 0
    /\ obs_aSince = -1
    /\ obs_bSince = -1
    /\ obs_aHolds = 0
    /\ obs_bHolds = 0

\* --------------------------------------------------------------- FSM engine

\* The states table: the three states of the unit tests, each with an entry
\* and an exit hook, the third without an update hook.
FsmStates ==
    << [id |-> 0, on_enter |-> TRUE, on_exit |-> TRUE, on_update |-> TRUE],
       [id |-> 1, on_enter |-> TRUE, on_exit |-> TRUE, on_update |-> TRUE],
       [id |-> 2, on_enter |-> TRUE, on_exit |-> TRUE, on_update |-> FALSE] >>

\* The transitions table: the five rows of the unit tests (action 0 is a
\* null action), followed by three rows that match events which an earlier
\* row matches too.
FsmTransitions ==
    << [from |-> 0, event |-> 1, to |-> 1, action |-> 0],
       [from |-> 1, event |-> 2, to |-> 2, action |-> 1],
       [from |-> 2, event |-> 3, to |-> 0, action |-> 0],
       [from |-> 0, event |-> 4, to |-> FSM_NO_TRANSITION, action |-> 1],
       [from |-> FSM_ANY_STATE, event |-> 5, to |-> 0, action |-> 1],
       [from |-> 0, event |-> 4, to |-> 1, action |-> 2],
       [from |-> 1, event |-> 5, to |-> 2, action |-> 2],
       [from |-> FSM_ANY_STATE, event |-> 1, to |-> 2, action |-> 2] >>

\* find_state: index of the first state with this id, 0 if there is none.
RECURSIVE FindStateFrom(_, _)
FindStateFrom(i, state_id) ==
    IF i > Len(FsmStates) THEN 0
    ELSE IF FsmStates[i].id = state_id THEN i
    ELSE FindStateFrom(i + 1, state_id)

\* call_entry_action for state_id, called while current_state is cur.
CallEntryAction(state_id, cur) ==
    LET i == FindStateFrom(1, state_id)
    IN  IF i # 0 /\ FsmStates[i].on_enter
        THEN << [hook |-> "enter", id |-> state_id, cur |-> cur] >>
        ELSE << >>

\* call_exit_action for state_id, called while current_state is cur.
CallExitAction(state_id, cur) ==
    LET i == FindStateFrom(1, state_id)
    IN  IF i # 0 /\ FsmStates[i].on_exit
        THEN << [hook |-> "exit", id |-> state_id, cur |-> cur] >>
        ELSE << >>

\* The action of a row, if it has one, called while current_state is cur.
CallAction(row, cur) ==
    IF row.action # 0
    THEN << [hook |-> "action", id |-> row.action, cur |-> cur] >>
    ELSE << >>

\* Variant of the test of one row that ignores from_state.
RowMatchesAnyFrom(i, cur, event) ==
    FsmTransitions[i].event = event

\* fsm_process_event: the test of one row.
RowMatches(i, cur, event) ==
    /\ FsmTransitions[i].from = cur \/ FsmTransitions[i].from = FSM_ANY_STATE
    /\ FsmTransitions[i].event = event

\* Variant of the table scan that returns the last matching row.
RECURSIVE FsmScanLast(_, _, _)
FsmScanLast(i, cur, event) ==
    IF i > Len(FsmTransitions) THEN 0
    ELSE LET later == FsmScanLast(i + 1, cur, event)
         IN  IF later # 0 THEN later
             ELSE IF RowMatches(i, cur, event) THEN i
             ELSE 0

\* fsm_process_event: the scan of the table from row i on, which stops at
\* the first matching row; 0 if no row matches.
RECURSIVE FsmScan(_, _, _)
FsmScan(i, cur, event) ==
    IF i > Len(FsmTransitions) THEN 0
    ELSE IF RowMatches(i, cur, event) THEN i
    ELSE FsmScan(i + 1, cur, event)

\* Variant of the full transition that enters the new state before it
\* runs the action and leaves the old state.
FsmFullTransitionEnterFirst(row, cur) ==
    [state |-> row.to,
     log |-> CallEntryAction(row.to, cur) \o CallAction(row, cur)
             \o CallExitAction(cur, cur),
     ret |-> TRUE]

\* fsm_process_event: the full transition of a matching row.
FsmFullTransition(row, cur) ==
    [state |-> row.to,
     log |-> CallExitAction(cur, cur) \o CallAction(row, cur)
             \o CallEntryAction(row.to, row.to),
     ret |-> TRUE]

\* Variant of the matching row's execution in which an action-only row also
\* leaves and re-enters the current state and reports a change.
FsmExecuteRowReenter(i, cur) ==
    IF i = 0 THEN [state |-> cur, log |-> << >>, ret |-> FALSE]
    ELSE IF FsmTransitions[i].to = FSM_NO_TRANSITION
         THEN [state |-> cur,
               log |-> CallExitAction(cur, cur)
                       \o CallAction(FsmTransitions[i], cur)
                       \o CallEntryAction(cur, cur),
               ret |-> TRUE]
    ELSE FsmFullTransition(FsmTransitions[i], cur)

\* fsm_process_event: what the matching row i does (0: no row matches).
FsmExecuteRow(i, cur) ==
    IF i = 0 THEN [state |-> cur, log |-> << >>, ret |-> FALSE]
    ELSE IF FsmTransitions[i].to = FSM_NO_TRANSITION
         THEN [state |-> cur, log |-> CallAction(FsmTransitions[i], cur),
               ret |-> FALSE]
    ELSE FsmFullTransition(FsmTransitions[i], cur)

\* fsm_process_event.
FsmProcessEvent(event) ==
    LET i == IF fsm_active THEN FsmScan(1, fsm_current_state, event) ELSE 0
        r == FsmExecuteRow(i, fsm_current_state)
    IN  /\ fsm_current_state' = r.state
        /\ fsm_log' = r.log
        /\ fsm_ret' = r.ret
        /\ fsm_event' = event
        /\ obs_fsmRow' = i
        /\ op' = "process_event"
        /\ UNCHANGED << fsm_initial_state, fsm_active, obs_fsmTarget, notFSM >>

\* fsm_init with the tables above and the initial state 0.
FsmInit ==
    /\ fsm_current_state' = 0
    /\ fsm_initial_state' = 0
    /\ fsm_active' = FALSE
    /\ fsm_log' = << >>
    /\ op' = "fsm_init"
    /\ UNCHANGED << fsm_event, fsm_ret, obs_fsmRow, obs_fsmTarget, notFSM >>

\* fsm_start.
FsmStart ==
    /\ fsm_active' = TRUE
    /\ fsm_log' = CallEntryAction(fsm_current_state, fsm_current_state)
    /\ op' = "fsm_start"
    /\ UNCHANGED << fsm_current_state, fsm_initial_state, fsm_event, fsm_ret,
                    obs_fsmRow, obs_fsmTarget, notFSM >>

\* fsm_update.
FsmUpdate ==
    LET i == FindStateFrom(1, fsm_current_state)
    IN  /\ fsm_log' = IF fsm_active /\ i # 0 /\ FsmStates[i].on_update
                      THEN << [hook |-> "update", id |-> fsm_current_state,
                               cur |-> fsm_current_state] >>
                      ELSE << >>
        /\ op' = "fsm_update"
        /\ UNCHANGED << fsm_current_state, fsm_initial_state, fsm_active,
                        fsm_event, fsm_ret, obs_fsmRow, obs_fsmTarget, notFSM >>

\* fsm_reset.
FsmReset ==
    /\ fsm_current_state' = fsm_initial_state
    /\ fsm_log' = IF fsm_active
                  THEN CallExitAction(fsm_current_state, fsm_current_state)
                       \o CallEntryAction(fsm_initial_state, fsm_initial_state)
                  ELSE << >>
    /\ op' = "fsm_reset"
    /\ UNCHANGED << fsm_initial_state, fsm_active, fsm_event, fsm_ret,
                    obs_fsmRow, obs_fsmTarget, notFSM >>

\* Variant of fsm_stop that calls the exit hook also when the FSM is not
\* active.
FsmStopAlwaysExits ==
    /\ fsm_active' = FALSE
    /\ fsm_log' = CallExitAction(fsm_current_state, fsm_current_state)
    /\ op' = "fsm_stop"
    /\ UNCHANGED << fsm_current_state, fsm_initial_state, fsm_event, fsm_ret,
                    obs_fsmRow, obs_fsmTarget, notFSM >>

\* fsm_stop.
FsmStop ==
    /\ fsm_active' = FALSE
    /\ fsm_log' = IF fsm_active
                  THEN CallExitAction(fsm_current_state, fsm_current_state)
                  ELSE << >>
    /\ op' = "fsm_stop"
    /\ UNCHANGED << fsm_current_state, fsm_initial_state, fsm_event, fsm_ret,
                    obs_fsmRow, obs_fsmTarget, notFSM >>

\* Variant of fsm_set_state that enters the new state before it leaves the
\* old one.
FsmSetStateEnterFirst(state_id) ==
    /\ fsm_current_state' = state_id
    /\ fsm_log' = IF fsm_active
                  THEN CallEntryAction(state_id, state_id)
                       \o CallExitAction(fsm_current_state, fsm_current_state)
                  ELSE << >>
    /\ obs_fsmTarget' = state_id
    /\ op' = "fsm_set_state"
    /\ UNCHANGED << fsm_initial_state, fsm_active, fsm_event, fsm_ret,
                    obs_fsmRow, notFSM >>

\* fsm_set_state.
FsmSetState(state_id) ==
    /\ fsm_current_state' = state_id
    /\ fsm_log' = IF fsm_active
                  THEN CallExitAction(fsm_current_state, fsm_current_state)
                       \o CallEntryAction(state_id, state_id)
                  ELSE << >>
    /\ obs_fsmTarget' = state_id
    /\ op' = "fsm_set_state"
    /\ UNCHANGED << fsm_initial_state, fsm_active, fsm_event, fsm_ret,
                    obs_fsmRow, notFSM >>

\* The FSM after fsm_init, before any other call.
InitFSM ==
    /\ fsm_current_state = 0
    /\ fsm_initial_state = 0
    /\ fsm_active = FALSE
    /\ fsm_event = 0
    /\ fsm_ret = FALSE
    /\ fsm_log = << >>
    /\ obs_fsmRow = 0
    /\ obs_fsmTarget = -1

\* ------------------------------------------------------------- IOController

\* The clock advances between two io_controller_update calls: just over the
\* debounce time, and the hold time of the config gesture.
IoTimeSteps == { EDGE_DEBOUNCE_MS + 1, HOLD_TIME_MS }

\* MODE_PULSE is the legacy name of MODE_TRIGGER.
MODE_PULSE == MODE_TRIGGER

\* cv_mode_get_next
CvModeGetNext(mode) == (mode + 1) % MODE_COUNT

\* cv_mode_get_led_state
CvModeGetLedState(mode) ==
    IF mode = MODE_GATE THEN [top |-> TRUE, bottom |-> FALSE]
    ELSE IF mode = MODE_TRIGGER THEN [top |-> FALSE, bottom |-> TRUE]
    ELSE IF mode = MODE_TOGGLE THEN [top |-> TRUE, bottom |-> TRUE]
    ELSE IF mode = MODE_DIVIDE THEN [top |-> FALSE, bottom |-> FALSE]
    ELSE IF mode = MODE_CYCLE THEN [top |-> FALSE, bottom |-> FALSE]
    ELSE [top |-> TRUE, bottom |-> FALSE]

\* The CVOutput of the controller as a record.
CvRecord ==
    [state |-> cv_state, start |-> cv_pulse_start_time,
     active |-> cv_pulse_active, last |-> cv_last_input_state, pin |-> cv_pin]

\* cv_output_reset
CvResetRecord ==
    [state |-> FALSE, start |-> 0, active |-> FALSE, last |-> FALSE,
     pin |-> FALSE]

\* cv_output_update_gate on the record cv.
CvGateOn(cv, input) == [cv EXCEPT !.state = input, !.pin = input]

\* cv_output_update_pulse on the record cv at the clock t.
CvPulseOn(cv, input, t) ==
    LET r == IF input /\ ~cv.last
             THEN [cv EXCEPT !.start = t, !.active = TRUE, !.state = TRUE,
                             !.pin = TRUE]
             ELSE cv
        e == IF r.active /\ Sub32(t, r.start) >= PULSE_DURATION_MS
             THEN [r EXCEPT !.active = FALSE, !.state = FALSE, !.pin = FALSE]
             ELSE r
    IN  [e EXCEPT !.last = input]

\* cv_output_update_toggle on the record cv.
CvToggleOn(cv, input) ==
    LET r == IF input /\ ~cv.last
             THEN [cv EXCEPT !.state = ~cv.state, !.pin = ~cv.state]
             ELSE cv
    IN  [r EXCEPT !.last = input]

\* io_controller_update: the switch on the mode.
IoCvUpdate(mode, cv, input, t) ==
    IF mode = MODE_GATE THEN CvGateOn(cv, input)
    ELSE IF mode = MODE_PULSE THEN CvPulseOn(cv, input, t)
    ELSE IF mode = MODE_TOGGLE THEN CvToggleOn(cv, input)
    ELSE CvGateOn(cv, input)

\* Variant of input_triggered that takes the button as it is.
IoInputTriggeredAlways(ignore, isPressed) == isPressed

\* io_controller_update: input_triggered.
IoInputTriggered(ignore, isPressed) == IF ignore THEN FALSE ELSE isPressed

\* io_controller_update with the pin of the button sampled as pin:
\* button_update, the mode change on config_action, the drive of the CV
\* output in the mode, the LEDs, and the end of ignore_pressed on a falling
\* edge.
IoControllerUpdate(pin) ==
    LET rise == ButtonHasRisingEdge(pin, last_state, last_rise_time, now)
        fall == ButtonHasFallingEdge(pin, last_state, last_fall_time, now)
        p1   == IF rise THEN TRUE ELSE pressed
        p2   == IF fall THEN FALSE ELSE p1
        re   == IF rise THEN TRUE ELSE ButtonClearedEdges.rising
        fe   == IF fall THEN TRUE ELSE ButtonClearedEdges.falling
        d    == ButtonDetectConfigAction(re, p2, tap_count, last_tap_time,
                                         counting_hold, now)
        flag == IF d.action THEN TRUE ELSE config_action
        mode == IF flag THEN CvModeGetNext(io_mode) ELSE io_mode
        ignore == IF flag THEN TRUE ELSE io_ignore_pressed
        cv0  == IF flag THEN CvResetRecord ELSE CvRecord
        cv1  == IoCvUpdate(mode, cv0, IoInputTriggered(ignore, p2), now)
        led  == CvModeGetLedState(mode)
    IN  \* button_update
        /\ raw_state' = pin
        /\ rising_edge' = re
        /\ falling_edge' = fe
        /\ last_rise_time' = IF rise THEN now ELSE last_rise_time
        /\ last_fall_time' = IF fall THEN now ELSE last_fall_time
        /\ pressed' = p2
        /\ tap_count' = d.tc
        /\ last_tap_time' = d.ltt
        /\ counting_hold' = d.ch
        /\ last_state' = p2
        /\ obs_lastRise' = IF re THEN now ELSE obs_lastRise
        /\ obs_run' = IF re
                      THEN IF obs_lastRise # -1
                              /\ now - obs_lastRise <= TAP_TIMEOUT_MS
                           THEN obs_run + 1 ELSE 1
                      ELSE obs_run
        /\ obs_done' = IF re THEN FALSE
                       ELSE obs_done
                            \/ (p2 /\ obs_lastRise # -1
                                /\ now - obs_lastRise >= HOLD_TIME_MS)
        /\ obs_raised' = IF d.action /\ ~config_action THEN obs_raised + 1
                          ELSE obs_raised
        \* the mode change: button_consume_config_action, cv_output_reset
        /\ config_action' = IF flag THEN FALSE ELSE config_action
        /\ io_mode' = mode
        \* the CV output
        /\ cv_state' = cv1.state
        /\ cv_pulse_start_time' = cv1.start
        /\ cv_pulse_active' = cv1.active
        /\ cv_last_input_state' = cv1.last
        /\ cv_pin' = cv1.pin
        \* the LEDs
        /\ io_led_top' = led.top
        /\ io_led_bottom' = led.bottom
        /\ io_led_out' = cv1.state
        \* BTN_FALL ends ignore_pressed
        /\ io_ignore_pressed' = IF fe THEN FALSE ELSE ignore
        \* history
        /\ obs_ioSaw' = flag
        /\ obs_ioWait' = IF fe THEN FALSE ELSE (flag \/ obs_ioWait)
        /\ obs_ioChanges' = IF flag THEN obs_ioChanges + 1 ELSE obs_ioChanges
        /\ op' = "io_update"
        /\ UNCHANGED << now, advances, io_advances, obs_cvPrevIn, obs_cvEdge,
                        obs_cvRise,
                        trigVars, modeAll, epAll, fsmVars, nullVars, selVars,
                        otherVars >>

\* The HAL clock moves on between two io_controller_update calls.
IoAdvanceTime(d) ==
    /\ io_advances < MaxIoAdvances
    /\ now' = now + d
    /\ io_advances' = io_advances + 1
    /\ op' = "advance"
    /\ UNCHANGED << io_mode, io_ignore_pressed, io_led_top, io_led_bottom,
                    io_led_out, obs_ioSaw, obs_ioWait, obs_ioChanges,
                    buttonAll, cvVars, trigVars, modeAll, epAll, fsmVars,
                    nullVars, selVars, otherVars >>

\* The shortcut of the controller's unit tests for a completed config
\* gesture: the caller, who owns the Button, raises its config_action flag
\* before the next io_controller_update.
ButtonSetConfigAction ==
    /\ obs_ioChanges < MaxIoChanges
    /\ ~config_action
    /\ config_action' = TRUE
    /\ op' = "set_config"
    /\ UNCHANGED << now, advances, raw_state, pressed, last_state, rising_edge,
                    falling_edge, tap_count, last_rise_time, last_fall_time,
                    last_tap_time, counting_hold, obsVars, cvVars, trigVars,
                    engineVars >>

\* io_controller_init; the LED pins are low until the first update.
InitIO ==
    /\ io_mode = MODE_GATE
    /\ io_ignore_pressed = FALSE
    /\ io_led_top = FALSE
    /\ io_led_bottom = FALSE
    /\ io_led_out = FALSE
    /\ io_advances = 0
    /\ obs_ioSaw = FALSE
    /\ obs_ioWait = FALSE
    /\ obs_ioChanges = 0

\* ------------------------------------------------ calls with a null handle

\* The operations of include/input/button.h.
ButtonOps ==
    { "button_init", "button_reset", "button_update",
      "button_consume_config_action", "button_detect_config_action",
      "button_has_rising_edge", "button_has_falling_edge" }

\* The operations of include/output/cv_output.h.
CvOps ==
    { "cv_output_init", "cv_output_reset", "cv_output_set", "cv_output_clear",
      "cv_output_update_gate", "cv_output_update_pulse",
      "cv_output_update_toggle" }

\* The operations of fsm.c.
FsmOps ==
    { "fsm_init", "fsm_start", "fsm_process_event", "fsm_update", "fsm_reset",
      "fsm_stop", "fsm_get_state", "fsm_set_state", "fsm_is_active" }

\* The public operations of mode_handlers.c.
ModeOps ==
    { "mode_handler_init", "mode_handler_process", "mode_handler_get_led" }

\* The operations of the EventProcessor.
EpOps ==
    { "event_processor_init", "event_processor_reset",
      "event_processor_update", "event_processor_a_pressed",
      "event_processor_b_pressed", "event_processor_a_holding",
      "event_processor_b_holding" }

\* A call with a null handle: its outcome and, for a no-op, its result.
NullCall(f, outcome, ret) ==
    /\ null_op' = f
    /\ null_outcome' = outcome
    /\ null_ret' = IF outcome = "noop" THEN ret ELSE "undefined"
    /\ op' = "null_call"
    /\ UNCHANGED notNull

\* A Button operation with button == NULL: no operation tests the pointer,
\* each reads or writes a field through it at once. The behaviour is
\* undefined: the access traps, or it goes through (address 0 is data memory
\* on the target) and the caller goes on with whatever was there.
ButtonNullCall(f) ==
    \E outcome \in {"fault", "corrupt"} : NullCall(f, outcome, "undefined")

\* A CVOutput operation with cv_output == NULL: as for the Button, no
\* operation tests the pointer.
CvNullCall(f) ==
    \E outcome \in {"fault", "corrupt"} : NullCall(f, outcome, "undefined")

\* An FSM operation with fsm == NULL: every operation returns at once,
\* fsm_process_event and fsm_is_active false, fsm_get_state 0.
FsmNullCall(f) ==
    NullCall(f, "noop",
             IF f \in {"fsm_process_event", "fsm_is_active"} THEN "false"
             ELSE IF f = "fsm_get_state" THEN "0"
             ELSE "void")

\* A mode handler operation with ctx == NULL: every operation returns at
\* once, mode_handler_process false; mode_handler_get_led leaves the
\* caller's LEDFeedback as it was.
ModeNullCall(f) ==
    NullCall(f, "noop",
             IF f = "mode_handler_process" THEN "false"
             ELSE IF f = "mode_handler_get_led" THEN "feedback untouched"
             ELSE "void")

\* An EventProcessor operation with ep == NULL: every operation returns at
\* once, event_processor_update EVT_NONE, the accessors false.
EpNullCall(f) ==
    NullCall(f, "noop",
             IF f = "event_processor_update" THEN "EVT_NONE"
             ELSE IF f \in {"event_processor_init", "event_processor_reset"}
                  THEN "void"
             ELSE "false")

\* No call with a null handle yet.
InitNull ==
    /\ null_op = "none"
    /\ null_outcome = "none"
    /\ null_ret = "none"

\* ------------------------------------------------------------- two Buttons

\* button_update on the Button with the fields b, the statics of
\* button_detect_config_action holding ltt and ch, the pin sampled as pin at
\* the clock t: the fields and the statics after the call.
ButtonUpdateRec(b, ltt, ch, pin, t) ==
    LET rise == ButtonHasRisingEdge(pin, b.last_state, b.last_rise_time, t)
        fall == ButtonHasFallingEdge(pin, b.last_state, b.last_fall_time, t)
        p1   == IF rise THEN TRUE ELSE b.pressed
        p2   == IF fall THEN FALSE ELSE p1
        re   == IF rise THEN TRUE ELSE ButtonClearedEdges.rising
        fe   == IF fall THEN TRUE ELSE ButtonClearedEdges.falling
        d    == ButtonDetectConfigAction(re, p2, b.tap_count, ltt, ch, t)
    IN  [ raw_state |-> pin, pressed |-> p2, last_state |-> p2,
          rising_edge |-> re, falling_edge |-> fe,
          config_action |-> IF d.action THEN TRUE ELSE b.config_action,
          tap_count |-> d.tc,
          last_rise_time |-> IF rise THEN t ELSE b.last_rise_time,
          last_fall_time |-> IF fall THEN t ELSE b.last_fall_time,
          ltt |-> d.ltt, ch |-> d.ch ]

\* One pass of a loop that owns two Buttons: button_update(&a), then
\* button_update(&b), in the same millisecond.  The statics last_tap_time
\* and counting_hold of button_detect_config_action exist once, whichever
\* Button is passed.
TwoButtonsUpdate(pinA, pinB) ==
    \E a \in { ButtonUpdateRec(
                   [ pressed |-> pressed, last_state |-> last_state,
                     config_action |-> config_action, tap_count |-> tap_count,
                     last_rise_time |-> last_rise_time,
                     last_fall_time |-> last_fall_time ],
                   last_tap_time, counting_hold, pinA, now) } :
    \E b \in { ButtonUpdateRec(
                   [ pressed |-> b_pressed, last_state |-> b_last_state,
                     config_action |-> b_config_action,
                     tap_count |-> b_tap_count,
                     last_rise_time |-> b_last_rise_time,
                     last_fall_time |-> b_last_fall_time ],
                   a.ltt, a.ch, pinB, now) } :
        /\ raw_state' = a.raw_state
        /\ pressed' = a.pressed
        /\ last_state' = a.last_state
        /\ rising_edge' = a.rising_edge
        /\ falling_edge' = a.falling_edge
        /\ config_action' = a.config_action
        /\ tap_count' = a.tap_count
        /\ last_rise_time' = a.last_rise_time
        /\ last_fall_time' = a.last_fall_time
        /\ b_raw_state' = b.raw_state
        /\ b_pressed' = b.pressed
        /\ b_last_state' = b.last_state
        /\ b_rising_edge' = b.rising_edge
        /\ b_falling_edge' = b.falling_edge
        /\ b_config_action' = b.config_action
        /\ b_tap_count' = b.tap_count
        /\ b_last_rise_time' = b.last_rise_time
        /\ b_last_fall_time' = b.last_fall_time
        /\ last_tap_time' = b.ltt
        /\ counting_hold' = b.ch
        \* history of the first Button
        /\ obs_lastRise' = IF a.rising_edge THEN now ELSE obs_lastRise
        /\ obs_run' = IF a.rising_edge
                      THEN IF obs_lastRise # -1
                              /\ now - obs_lastRise <= TAP_TIMEOUT_MS
                           THEN obs_run + 1 ELSE 1
                      ELSE obs_run
        /\ obs_done' = IF a.rising_edge THEN FALSE
                       ELSE obs_done
                            \/ (a.pressed /\ obs_lastRise # -1
                                /\ now - obs_lastRise >= HOLD_TIME_MS)
        /\ obs_raised' = IF a.config_action /\ ~config_action
                          THEN obs_raised + 1 ELSE obs_raised
        /\ op' = "update"
        /\ UNCHANGED << now, advances, cvVars, trigVars, modeAll, epAll,
                        fsmVars, nullVars, selVars, ioVars, clockObsVars,
                        restVars >>

\* button_init of the second Button.
InitButtonB ==
    /\ b_raw_state = FALSE
    /\ b_pressed = FALSE
    /\ b_last_state = FALSE
    /\ b_rising_edge = FALSE
    /\ b_falling_edge = FALSE
    /\ b_config_action = FALSE
    /\ b_tap_count = 0
    /\ b_last_rise_time = 0
    /\ b_last_fall_time = 0

\* ------------------------------------------------- the clock wrapping to 0

\* The next millisecond begins, the counter wrapping to 0 after its largest
\* value: the mode handler's process is due again.
WrapClock ==
    /\ IF mh_mode = "trigger" THEN ~trig_pending ELSE ~mh_pending
    /\ obs_ticks < WrapMaxTicks
    /\ now' = (now + 1) % ClockModulus
    /\ obs_ticks' = obs_ticks + 1
    /\ trig_pending' = TRUE
    /\ mh_pending' = TRUE
    /\ op' = "advance"
    /\ UNCHANGED << trig_output_state, trig_last_input, trig_pulse_start,
                    trig_pulse_duration_ms, trig_output, trig_changed,
                    obs_trigPrevIn, obs_trigRise, obs_trigRetrig, mh_mode,
                    mh_input, mh_output, mh_changed, gateVars, togVars, divVars,
                    cycVars, obsModeVars, selVars, buttonAll, cvVars, epAll,
                    fsmVars, nullVars, ioVars, buttonBVars, obs_clock0,
                    restVars >>

\* The observer's clock at the start of a behaviour.
InitClockObs ==
    /\ obs_ticks = 0
    /\ obs_clock0 = now

\* ------------------------------------------- hal_millis and the Timer0 interrupt

\* Variant of the overflow test that also takes an unchanged low word for a
\* wrapped one.
MillisOverflowedOrEqual(low, last) == low <= last
\* if (low < timer0_millis_last): the low word has wrapped since the last call.
MillisOverflowed(low, last) == low < last

\* ((uint32_t)timer0_millis_high << 16) | low, both operands below 2^16.
MillisValue(high, low) == high * WORD_MODULUS + low

\* ISR(TIMER0_COMPA_vect) runs d times with no step of hal_millis in between.
\* It cannot run between cli() and sei(); it can run while hal_millis is
\* about to return.
Timer0Isr(d) ==
    /\ obs_millisSteps < MaxMillisSteps
    /\ timer0_millis_low' = (timer0_millis_low + d) % WORD_MODULUS
    /\ obs_millisTotal' = obs_millisTotal + d
    /\ obs_millisSince' = obs_millisSince + d
    /\ obs_millisLate' = (obs_millisLate
                           \/ obs_millisSince + d > MAX_TICKS_BETWEEN_READS)
    /\ obs_millisSteps' = obs_millisSteps + 1
    /\ op' = "isr"
    /\ UNCHANGED << timer0_millis_high, timer0_millis_last, millis_pc,
                    millis_low, millis_ret, obs_millisPrev, obs_millisAtRead >>
    /\ UNCHANGED << now, buttonAll, cvVars, trigVars, modeAll, epAll, fsmVars,
                    nullVars, selVars, ioVars, buttonBVars, clockObsVars,
                    appVars >>

\* hal_millis from cli() to sei(): reads the low word, extends the high word
\* when the low word has wrapped, remembers the low word.
MillisRead ==
    /\ millis_pc = "idle"
    /\ millis_low' = timer0_millis_low
    /\ timer0_millis_high' =
           IF MillisOverflowed(timer0_millis_low, timer0_millis_last)
           THEN (timer0_millis_high + 1) % WORD_MODULUS
           ELSE timer0_millis_high
    /\ timer0_millis_last' = timer0_millis_low
    /\ millis_pc' = "ret"
    /\ obs_millisAtRead' = obs_millisTotal
    /\ obs_millisSince' = 0
    /\ op' = "millis_read"
    /\ UNCHANGED << timer0_millis_low, millis_ret, obs_millisPrev,
                    obs_millisTotal, obs_millisLate, obs_millisSteps >>
    /\ UNCHANGED << now, buttonAll, cvVars, trigVars, modeAll, epAll, fsmVars,
                    nullVars, selVars, ioVars, buttonBVars, clockObsVars,
                    appVars >>

\* hal_millis after sei(): composes and returns the 32-bit value.
MillisReturn ==
    /\ millis_pc = "ret"
    /\ millis_ret' = MillisValue(timer0_millis_high, millis_low)
    /\ obs_millisPrev' = millis_ret
    /\ millis_pc' = "idle"
    /\ op' = "millis"
    /\ UNCHANGED << timer0_millis_low, timer0_millis_high, timer0_millis_last,
                    millis_low, obs_millisTotal, obs_millisAtRead,
                    obs_millisSince, obs_millisLate, obs_millisSteps >>
    /\ UNCHANGED << now, buttonAll, cvVars, trigVars, modeAll, epAll, fsmVars,
                    nullVars, selVars, ioVars, buttonBVars, clockObsVars,
                    appVars >>

\* The three counters as their definitions initialise them; no call yet.
InitMillis ==
    /\ timer0_millis_low = 0
    /\ timer0_millis_high = 0
    /\ timer0_millis_last = 0
    /\ millis_pc = "idle"
    /\ millis_low = 0
    /\ millis_ret = -1
    /\ obs_millisPrev = -1
    /\ obs_millisTotal = 0
    /\ obs_millisAtRead = 0
    /\ obs_millisSince = 0
    /\ obs_millisLate = FALSE
    /\ obs_millisSteps = 0

\* ------------------------------------------------ settings kept in EEPROM

RECURSIVE Xor(_, _)
\* a ^ b on unsigned values.
Xor(a, b) ==
    IF a = 0 THEN b
    ELSE IF b = 0 THEN a
    ELSE ((a + b) % 2) + 2 * Xor(a \div 2, b \div 2)

\* The bytes of the packed struct AppSettings, in memory order.
SettingsBytes(s) ==
    << s.mode, s.cv_function, s.param1, s.param2 >> \o s.reserved
\* The struct whose bytes are the sequence b.
SettingsOfBytes(b) ==
    [mode |-> b[1], cv_function |-> b[2], param1 |-> b[3], param2 |-> b[4],
     reserved |-> << b[5], b[6], b[7], b[8] >>]

RECURSIVE XorUpTo(_, _)
XorUpTo(b, n) == IF n = 0 THEN 0 ELSE Xor(XorUpTo(b, n - 1), b[n])
\* calculate_checksum: XOR over the APP_SETTINGS_SIZE bytes of the struct.
calculate_checksum(s) == XorUpTo(SettingsBytes(s), APP_SETTINGS_SIZE)

\* app_init_get_defaults.
AppDefaults ==
    [mode |-> MODE_GATE, cv_function |-> 0, param1 |-> 0, param2 |-> 0,
     reserved |-> << 0, 0, 0, 0 >>]

\* eeprom_write_word / eeprom_read_word: low byte first.
EepromWriteWord(e, addr, w) ==
    [e EXCEPT ![addr] = w % BYTE_MODULUS, ![addr + 1] = w \div BYTE_MODULUS]
EepromReadWord(e, addr) == e[addr] + BYTE_MODULUS * e[addr + 1]

\* app_init_clear_eeprom: the magic number set to 0xFFFF.
AppInitClearEeprom(e) == EepromWriteWord(e, EEPROM_MAGIC_ADDR, 65535)

\* app_init_save_settings: magic number, schema version, the struct byte by
\* byte, the checksum.
AppInitSaved(e, s) ==
    LET e1 == EepromWriteWord(e, EEPROM_MAGIC_ADDR, EEPROM_MAGIC_VALUE)
        e2 == [e1 EXCEPT ![EEPROM_SCHEMA_ADDR] = SETTINGS_SCHEMA_VERSION]
        e3 == [a \in DOMAIN e2 |->
                 IF a \in EEPROM_SETTINGS_ADDR ..
                          EEPROM_SETTINGS_ADDR + APP_SETTINGS_SIZE - 1
                 THEN SettingsBytes(s)[a - EEPROM_SETTINGS_ADDR + 1]
                 ELSE e2[a]]
    IN  [e3 EXCEPT ![EEPROM_CHECKSUM_ADDR] = calculate_checksum(s)]

\* The struct as load_settings reads it back, byte by byte.
EepromSettings(e) ==
    SettingsOfBytes([i \in 1 .. APP_SETTINGS_SIZE |->
                        e[EEPROM_SETTINGS_ADDR + i - 1]])

\* load_settings, level 4: if (settings->mode > MODE_TOGGLE) return false.
LoadRangeOk(s) == ~(s.mode > MODE_TOGGLE)

\* load_settings: TRUE when magic number, schema version, checksum and range
\* are all accepted.
LoadSettingsOk(e) ==
    /\ EepromReadWord(e, EEPROM_MAGIC_ADDR) = EEPROM_MAGIC_VALUE
    /\ e[EEPROM_SCHEMA_ADDR] = SETTINGS_SCHEMA_VERSION
    /\ e[EEPROM_CHECKSUM_ADDR] = calculate_checksum(EepromSettings(e))
    /\ LoadRangeOk(EepromSettings(e))

\* app_init_save_settings(&s) with a record s of the caller's.
AppInitSaveSettings(s) ==
    /\ eeprom' = AppInitSaved(eeprom, s)
    /\ obs_saved' = s
    /\ op' = "app_init_save_settings"
    /\ UNCHANGED << app_settings, app_result, app_reset, obs_corruptions >>
    /\ UNCHANGED << now, buttonAll, cvVars, trigVars, modeAll, epAll, fsmVars,
                    nullVars, selVars, ioVars, buttonBVars, clockObsVars,
                    millisVars >>

\* app_init_run(&settings); reset is what app_init_check_factory_reset
\* returned (both buttons held for APP_INIT_RESET_HOLD_MS or not).
AppInitRun(reset) ==
    /\ app_reset' = reset
    /\ IF reset
       THEN /\ eeprom' = AppInitSaved(AppInitClearEeprom(eeprom), AppDefaults)
            /\ app_settings' = AppDefaults
            /\ app_result' = "APP_INIT_OK_FACTORY_RESET"
       ELSE IF LoadSettingsOk(eeprom)
       THEN /\ app_settings' = EepromSettings(eeprom)
            /\ app_result' = "APP_INIT_OK"
            /\ eeprom' = eeprom
       ELSE /\ app_settings' = AppDefaults
            /\ app_result' = "APP_INIT_OK_DEFAULTS"
            /\ eeprom' = eeprom
    /\ op' = "app_init_run"
    /\ UNCHANGED << obs_saved, obs_corruptions >>
    /\ UNCHANGED << now, buttonAll, cvVars, trigVars, modeAll, epAll, fsmVars,
                    nullVars, selVars, ioVars, buttonBVars, clockObsVars,
                    millisVars >>

\* One byte of the EEPROM changes while the program is not running: it is
\* erased to 0xFF or its lowest bit flips.
EepromCorrupt(addr, erase) ==
    /\ obs_corruptions < MaxCorruptions
    /\ eeprom' = [eeprom EXCEPT
                     ![addr] = IF erase THEN 255 ELSE Xor(eeprom[addr], 1)]
    /\ eeprom' # eeprom
    /\ obs_corruptions' = obs_corruptions + 1
    /\ op' = "corrupt"
    /\ UNCHANGED << app_settings, app_result, app_reset, obs_saved >>
    /\ UNCHANGED << now, buttonAll, cvVars, trigVars, modeAll, epAll, fsmVars,
                    nullVars, selVars, ioVars, buttonBVars, clockObsVars,
                    millisVars >>

\* An erased EEPROM and the zero-initialised static settings of main.c.
InitApp ==
    /\ eeprom = [a \in 0 .. EEPROM_CHECKSUM_ADDR |-> 255]
    /\ app_settings = [mode |-> 0, cv_function |-> 0, param1 |-> 0,
                       param2 |-> 0, reserved |-> << 0, 0, 0, 0 >>]
    /\ app_result = "none"
    /\ app_reset = FALSE
    /\ obs_saved = AppDefaults
    /\ obs_corruptions = 0

InitOther ==
    /\ InitButtonB
    /\ InitClockObs
    /\ InitMillis
    /\ InitApp

\* ----------------------------------------------------------- specifications

\* The clock at 0 and every component freshly initialised. The Trigger
\* context, which only SpecTrigger drives, rests at a 10 ms pulse here.
Init ==
    /\ now = 0
    /\ op = "init"
    /\ advances = 0
    /\ InitButton
    /\ InitCV
    /\ InitTrigger(PULSE_DURATION_MS)
    /\ InitModeHandlers("gate", 1, 2)
    /\ InitEvents
    /\ InitFSM
    /\ InitNull
    /\ InitSelect
    /\ InitIO
    /\ InitOther

\* As Init, with the Trigger pulse duration any of 1..MaxPulseMs ms.
InitTrig ==
    /\ now = 0
    /\ op = "init"
    /\ advances = 0
    /\ InitButton
    /\ InitCV
    /\ \E d \in 1..MaxPulseMs : InitTrigger(d)
    /\ InitModeHandlers("gate", 1, 2)
    /\ InitEvents
    /\ InitFSM
    /\ InitNull
    /\ InitSelect
    /\ InitIO
    /\ InitOther

\* As Init, with the mode-handler context initialised for Gate, for Toggle,
\* for Divide with a divisor of 1..MaxDivisor, or for Cycle with a period of
\* 2..MaxPeriod ms.
InitModes ==
    /\ now = 0
    /\ op = "init"
    /\ advances = 0
    /\ InitButton
    /\ InitCV
    /\ InitTrigger(PULSE_DURATION_MS)
    /\ \/ InitModeHandlers("gate", 1, 2)
       \/ InitModeHandlers("toggle", 1, 2)
       \/ \E n \in 1..MaxDivisor : InitModeHandlers("divide", n, 2)
       \/ \E p \in 2..MaxPeriod : InitModeHandlers("cycle", 1, p)
    /\ InitEvents
    /\ InitFSM
    /\ InitNull
    /\ InitSelect
    /\ InitIO
    /\ InitOther

NextButton ==
    \/ \E pin \in BOOLEAN : ButtonUpdate(pin)
    \/ ButtonReset
    \/ ButtonConsumeConfigAction
    \/ \E d \in ButtonTimeSteps : ButtonAdvanceTime(d)

NextCV ==
    \/ CvInit
    \/ CvReset
    \/ CvSet
    \/ CvClear
    \/ \E i \in BOOLEAN : CvUpdateGate(i)
    \/ \E i \in BOOLEAN : CvUpdatePulse(i)
    \/ \E i \in BOOLEAN : CvUpdateToggle(i)
    \/ CvAdvanceTime

NextPulse ==
    \/ \E i \in BOOLEAN : CvUpdatePulse(i)
    \/ CvAdvanceTime

NextTrigger ==
    \/ \E i \in BOOLEAN : TriggerProcess(i)
    \/ TriggerClock

NextModes ==
    \/ \E i \in BOOLEAN : GateProcess(i)
    \/ \E i \in BOOLEAN : ToggleProcess(i)
    \/ \E i \in BOOLEAN : DivideProcess(i)
    \/ \E i \in BOOLEAN : CycleProcess(i)
    \/ ModeClock

NextEvents ==
    \/ \E a, b, cv \in BOOLEAN : EventUpdate(a, b, cv)
    \/ \E d \in {1, EP_HOLD_THRESHOLD_MS - 1} : EventAdvanceTime(d)

NextFSM ==
    \/ FsmInit
    \/ FsmStart
    \/ \E e \in 1..MaxFsmEvent : FsmProcessEvent(e)
    \/ FsmUpdate
    \/ FsmReset
    \/ FsmStop
    \/ \E id \in 0..MaxFsmStateId : FsmSetState(id)

NextIO ==
    \/ \E pin \in BOOLEAN : IoControllerUpdate(pin)
    \/ \E d \in IoTimeSteps : IoAdvanceTime(d)

NextIOFlag ==
    \/ NextIO
    \/ ButtonSetConfigAction

NextSelect ==
    \/ \E mode \in ModeIds, settings \in SettingsSet :
           ModeHandlerInit(mode, settings)
    \/ \E input \in BOOLEAN : ModeHandlerProcess(sel_mode, input)
    \/ ModeHandlerGetLed(sel_mode)
    \/ SelectClock

NextNull ==
    \/ NextFSM
    \/ \E f \in ButtonOps : ButtonNullCall(f)
    \/ \E f \in CvOps : CvNullCall(f)
    \/ \E f \in FsmOps : FsmNullCall(f)
    \/ \E f \in ModeOps : ModeNullCall(f)
    \/ \E f \in EpOps : EpNullCall(f)

\* One Button, its operations called in any order at any clock values.
SpecButton == Init /\ [][NextButton]_vars

\* One CVOutput, all its public operations in any order.
SpecCV == Init /\ [][NextCV]_vars

\* One CVOutput driven by cv_output_update_pulse alone.
SpecPulse == Init /\ [][NextPulse]_vars

\* The Trigger mode handler, trigger_process called once every millisecond.
SpecTrigger == InitTrig /\ [][NextTrigger]_vars

\* The Gate, Toggle, Divide and Cycle mode handlers, mode_handler_process
\* called once every millisecond in the mode the context was set up for.
SpecModes == InitModes /\ [][NextModes]_vars

\* One EventProcessor, event_processor_update called with any inputs at any
\* clock values.
SpecEvents == Init /\ [][NextEvents]_vars

\* One FSM over the tables above, its operations called in any order.
SpecFSM == Init /\ [][NextFSM]_vars

\* One IOController with its Button and CVOutput: io_controller_update
\* called with any pin level, the clock advancing between the calls.
SpecIO == Init /\ [][NextIO]_vars

\* As SpecIO, the config_action flag being raised also by the caller.
SpecIOFlag == Init /\ [][NextIOFlag]_vars

\* One mode-handler context: initialised through mode_handler_init with any
\* mode id and any settings, then processed once per millisecond and read
\* by mode_handler_get_led with that mode id, and initialised again.
SpecSelect == Init /\ [][NextSelect]_vars

\* The FSM of SpecFSM, and between its operations any public operation of
\* any component called with a null handle.
SpecNull == Init /\ [][NextNull]_vars

\* As Init, with the clock started 1..WrapLead ms before it wraps and the
\* mode-handler context initialised for Trigger, for Divide, for Cycle, or
\* for Gate, which keeps no time: the behaviours that drive the CVOutput.
InitWrap ==
    /\ \E k \in 1..WrapLead : now = ClockModulus - k
    /\ op = "init"
    /\ advances = 0
    /\ InitButton
    /\ InitCV
    /\ InitTrigger(PULSE_DURATION_MS)
    /\ \/ InitModeHandlers("gate", 1, 2)
       \/ InitModeHandlers("trigger", 1, 2)
       \/ \E n \in 1..MaxDivisor : InitModeHandlers("divide", n, 2)
       \/ \E p \in 2..MaxPeriod : InitModeHandlers("cycle", 1, p)
    /\ InitEvents
    /\ InitFSM
    /\ InitNull
    /\ InitSelect
    /\ InitIO
    /\ InitOther

NextWrap ==
    \/ \E input \in BOOLEAN : ModeHandlerProcess(sel_mode, input)
    \/ \E i \in BOOLEAN : mh_mode = "gate" /\ CvUpdatePulse(i)
    \/ WrapClock

\* One mode handler (Trigger, Divide or Cycle) processed every millisecond,
\* or one CVOutput driven by cv_output_update_pulse, while the millisecond
\* counter passes its largest value and starts again at 0.
SpecWrap == InitWrap /\ [][NextWrap]_vars

NextMillis ==
    \/ \E d \in MillisTickSteps : Timer0Isr(d)
    \/ MillisRead
    \/ MillisReturn

\* The Timer0 compare interrupt interleaved with main-thread calls of
\* hal_millis, however far apart the calls are.
SpecMillis == Init /\ [][NextMillis]_vars

NextApp ==
    \/ \E s \in SavedSettings : AppInitSaveSettings(s)
    \/ \E reset \in BOOLEAN : AppInitRun(reset)
    \/ \E addr \in CorruptAddrs, erase \in BOOLEAN : EepromCorrupt(addr, erase)

\* Settings saved and loaded again at start-up, the EEPROM possibly changed
\* in between.
SpecApp == Init /\ [][NextApp]_vars

NextGesture ==
    \/ \E pin \in BOOLEAN : ButtonUpdate(pin)
    \/ ButtonConsumeConfigAction
    \/ \E d \in IoTimeSteps : GestureAdvanceTime(d)

\* One Button that is never reset, as the IOController uses it: updated with
\* any pin level, its flag consumed at any time, over a time long enough for
\* two config gestures.
SpecGesture == Init /\ [][NextGesture]_vars

NextTwoButtons ==
    \/ \E pinA, pinB \in BOOLEAN : TwoButtonsUpdate(pinA, pinB)
    \/ \E d \in IoTimeSteps : ButtonAdvanceTime(d)

\* Two Buttons updated one after the other in every pass of the loop, with
\* any pin levels, the clock advancing between the passes.
SpecTwoButtons == Init /\ [][NextTwoButtons]_vars

\* ------------------------------------------------------------ Button claims

\* C1: two updates that report a rising edge are more than EDGE_DEBOUNCE_MS
\* apart, and a press sampled while the button is released is reported
\* exactly when it comes more than EDGE_DEBOUNCE_MS after the previously
\* reported rising edge (at +5 ms it is not, at +6 ms it is).
C1_DebounceSpacing ==
    [][ (op' = "update" /\ obs_lastRise # -1) =>
          /\ (rising_edge' => now' - obs_lastRise > EDGE_DEBOUNCE_MS)
          /\ ((raw_state' /\ ~pressed) =>
                (rising_edge' <=> now' - obs_lastRise > EDGE_DEBOUNCE_MS)) ]_vars

\* A press sampled exactly EDGE_DEBOUNCE_MS after the reported rising edge,
\* with the button released in between, was rejected.
C1_Witness ==
    /\ op = "update" /\ raw_state /\ ~rising_edge /\ ~pressed
    /\ obs_lastRise # -1 /\ last_fall_time >= obs_lastRise
    /\ now - obs_lastRise = EDGE_DEBOUNCE_MS

\* C2: after TAPS_TO_CHANGE reported taps, each within TAP_TIMEOUT_MS of the
\* one before, and with the button pressed ever since, config_action is set
\* by the first update at least HOLD_TIME_MS after the last tap's rising
\* edge, and an update before that leaves it as it was.
C2_HoldBoundary ==
    [][ (/\ op' = "update"
         /\ obs_run' >= TAPS_TO_CHANGE
         /\ pressed'
         /\ (rising_edge' \/ ~obs_done)) =>
          (config_action' <=>
             (config_action \/ now' - obs_lastRise' >= HOLD_TIME_MS)) ]_vars

\* The hold completed exactly HOLD_TIME_MS after the 5th tap.
C2_Witness ==
    /\ op = "update" /\ config_action /\ pressed
    /\ obs_run = TAPS_TO_CHANGE
    /\ now - obs_lastRise = HOLD_TIME_MS

\* C3 as stated: a release accepted before HOLD_TIME_MS has elapsed since
\* the qualifying tap leaves config_action alone, cancels hold counting and
\* keeps tap_count.
C3_ReleaseKeepsTapCount ==
    [][ (/\ op' = "update" /\ falling_edge' /\ pressed
         /\ obs_run >= TAPS_TO_CHANGE
         /\ now' - obs_lastRise < HOLD_TIME_MS) =>
          /\ config_action' = config_action
          /\ ~counting_hold'
          /\ tap_count' = tap_count ]_vars

\* C3 amended: as C3, but tap_count is kept only by a release at most
\* TAP_TIMEOUT_MS after the tap's rising edge; a later release clears it.
C3_ReleaseCancelsHold ==
    [][ (/\ op' = "update" /\ falling_edge' /\ pressed
         /\ obs_run >= TAPS_TO_CHANGE
         /\ now' - obs_lastRise < HOLD_TIME_MS) =>
          /\ config_action' = config_action
          /\ ~counting_hold'
          /\ tap_count' = IF now' - obs_lastRise <= TAP_TIMEOUT_MS
                          THEN tap_count ELSE 0 ]_vars

\* The 5th tap was released exactly TAP_TIMEOUT_MS after its rising edge and
\* tap_count is still TAPS_TO_CHANGE.
C3_Witness ==
    /\ op = "update" /\ falling_edge /\ ~pressed /\ ~counting_hold
    /\ ~config_action
    /\ obs_run = TAPS_TO_CHANGE /\ tap_count = TAPS_TO_CHANGE
    /\ now - obs_lastRise = TAP_TIMEOUT_MS

\* C4: config_action is only ever set by an update that follows a complete
\* sequence of TAPS_TO_CHANGE taps made since the last button_reset and a
\* hold of HOLD_TIME_MS.
C4_ResetClearsGesture ==
    [][ (op' = "update" /\ ~config_action /\ config_action') =>
          /\ obs_run' >= TAPS_TO_CHANGE
          /\ now' - obs_lastRise' >= HOLD_TIME_MS ]_vars

\* C5: config_action, once true, stays true across button_update,
\* button_reset and clock advances; button_consume_config_action leaves it
\* false, whatever it was.
C5_ConfigActionSticky ==
    [][ /\ ((config_action /\ op' # "consume") => config_action')
        /\ (op' = "consume" => ~config_action') ]_vars

\* config_action survived a button_reset.
C5_Witness == op = "reset" /\ config_action /\ ~pressed /\ tap_count = 0

\* C6: a reported rising edge adds one to tap_count when it comes at most
\* TAP_TIMEOUT_MS after the previous reported rising edge (or is the first)
\* and sets it to 1 when it comes later; an update that leaves the button
\* released more than TAP_TIMEOUT_MS after the last rising edge sets
\* tap_count to 0.
C6_TapWindow ==
    [][ op' = "update" =>
          /\ (rising_edge' =>
                tap_count' = IF obs_lastRise # -1
                                /\ now' - obs_lastRise > TAP_TIMEOUT_MS
                             THEN 1
                             ELSE (tap_count + 1) % Pow8)
          /\ ((~pressed' /\ obs_lastRise' # -1
               /\ now' - obs_lastRise' > TAP_TIMEOUT_MS) =>
                tap_count' = 0) ]_vars

\* The second tap was counted with its rising edge exactly TAP_TIMEOUT_MS
\* after the first: the first tap's release (last_fall_time) is not older
\* than its rising edge, and is TAP_TIMEOUT_MS old.
C6_Witness ==
    /\ op = "update" /\ rising_edge /\ tap_count = 2 /\ obs_run = 2
    /\ now - last_fall_time = TAP_TIMEOUT_MS

\* C7: rising_edge and falling_edge are never both true; an update reports
\* an edge only when it changes the debounced state, and never reports the
\* same edge in two updates in a row.
C7_EdgeFlags ==
    [][ /\ ~(rising_edge' /\ falling_edge')
        /\ (op' = "update" =>
              /\ (rising_edge' => (~pressed /\ pressed' /\ ~rising_edge))
              /\ (falling_edge' => (pressed /\ ~pressed' /\ ~falling_edge))) ]_vars

\* The update after the one that accepted a rising edge, at the same clock:
\* the flag is cleared while the button is still pressed.
C7_Witness ==
    /\ op = "update" /\ pressed /\ raw_state
    /\ ~rising_edge /\ ~falling_edge
    /\ obs_lastRise = now

\* ---------------------------------------------------------- CVOutput claims

\* C8: in every state reachable by the public CVOutput operations,
\* pulse_active implies state == true.
C8_PulseActiveImpliesState == cv_pulse_active => cv_state

\* C9: cv_output_update_pulse called while a pulse is active leaves
\* pulse_start_time unchanged, also when the input fell and rises again.
C9_NoRestartOnRetrigger ==
    [][ (op' = "cv_pulse" /\ cv_pulse_active) =>
          cv_pulse_start_time' = cv_pulse_start_time ]_vars

\* ------------------------------------------------------ Trigger mode claims

\* C10: with trigger_process called every millisecond and a pulse duration
\* D >= 1, the output returned at time t is high exactly when the most
\* recent rising edge of the input came at a time e with e <= t < e + D.
C10_TriggerPulse ==
    ~trig_pending =>
       /\ trig_output = trig_output_state
       /\ trig_output <=> /\ obs_trigRise # -1
                          /\ obs_trigRise <= now
                          /\ now < obs_trigRise + trig_pulse_duration_ms

\* D = 10: a rising edge arrived while the output was high, and 9 ms after
\* it the output is still high.
C10_Witness ==
    /\ ~trig_pending /\ trig_pulse_duration_ms = 10
    /\ obs_trigRetrig /\ trig_output
    /\ now = obs_trigRise + 9

\* -------------------------------------------------------- Mode handler claims

\* C11 as stated: for every input sequence the Divide output shows exactly
\* one pulse (one low-to-high transition) per N rising edges of the input.
C11_OnePulsePerN ==
    (mh_mode = "divide" /\ ~mh_pending) =>
        obs_divPulses = obs_mhRises \div div_divisor

\* C11: Divide with a divisor N >= 1, divide_process called every
\* millisecond: the counter is the number of rising edges modulo N (reset to
\* 0 on the N-th, 2N-th, ... edge); the output is high exactly during the
\* OUTPUT_PULSE_MS after the most recent such edge; each such edge either
\* starts a pulse (a low-to-high transition, when the output was low) or
\* arrives while the output is still high and only restarts the pulse time,
\* so there is one pulse per N edges when no such edge arrives during a
\* pulse; other edges start no pulse.
C11_DividePulse ==
    (mh_mode = "divide" /\ ~mh_pending) =>
        /\ div_counter = obs_mhRises % div_divisor
        /\ mh_output = div_output_state
        /\ mh_output <=> /\ obs_divNth # -1
                         /\ now < obs_divNth + OUTPUT_PULSE_MS
        /\ obs_divPulses + obs_divMerged = obs_mhRises \div div_divisor
        /\ obs_divMerged = 0 => obs_divPulses = obs_mhRises \div div_divisor

\* N = 2: four rising edges have given two separate pulses and the second
\* pulse has ended, with a fifth edge counted since.
C11_Witness ==
    /\ mh_mode = "divide" /\ ~mh_pending /\ div_divisor = 2
    /\ obs_mhRises = 5 /\ div_counter = 1
    /\ obs_divPulses = 2 /\ obs_divMerged = 0
    /\ ~mh_output

\* C12 as stated: with cycle_process called every millisecond the output is
\* a square wave whose full period (from one low-to-high toggle to the next)
\* equals the configured period_ms, for every configured period.
C12_CyclePeriod ==
    obs_cycPeriod # -1 => obs_cycPeriod = cyc_period_ms

\* C13: the Toggle output is the parity of the number of rising edges of the
\* input seen so far, and a call that is not a rising edge (input held high,
\* falling edge, input low) does not change the output.
C13_ToggleParity ==
    [][ op' = "toggle" =>
          /\ mh_output' <=> (obs_mhRises' % 2 = 1)
          /\ mh_output' = tog_output_state'
          /\ ~(mh_input' /\ ~mh_input) =>
                (mh_output' = mh_output /\ ~mh_changed') ]_vars

\* Three rising edges so far and the last call saw the input held high: the
\* output is high and unchanged.
C13_Witness ==
    /\ op = "toggle" /\ obs_mhRises = 3
    /\ mh_input /\ ~mh_changed /\ mh_output

\* C14: every gate_process call returns output = input, and changed is true
\* exactly when the input differs from the output of the previous call
\* (low before the first call).
C14_GateFollows ==
    [][ op' = "gate" =>
          /\ mh_output' = mh_input'
          /\ gate_output_state' = mh_input'
          /\ mh_changed' <=> (mh_input' # mh_output) ]_vars

\* A call with the input low after a call with the input high: the output
\* went low and the call reported the change.
C14_Witness ==
    /\ op = "gate" /\ ~mh_input /\ ~mh_output /\ mh_changed

\* ------------------------------------------------------- EventProcessor claims

\* C15: every update returns exactly one Event; it is an event of button A
\* if A has a transition (press, release, hold due), otherwise an event of
\* button B if B has one, otherwise a CV event if the CV level changed,
\* otherwise NONE. A and B pressed in the same update give A_PRESS, a button
\* pressed in the update of a CV rise gives the button's PRESS.
C15_Priority ==
    [][ op' = "event" =>
          LET aRise == ep_a_pressed' /\ obs_aSince = -1
              bRise == ep_b_pressed' /\ obs_bSince = -1
              aT == \/ aRise
                    \/ ~ep_a_pressed' /\ obs_aSince # -1
                    \/ /\ ep_a_pressed' /\ obs_aSince # -1 /\ obs_aHolds = 0
                       /\ now - obs_aSince >= EP_HOLD_THRESHOLD_MS
              bT == \/ bRise
                    \/ ~ep_b_pressed' /\ obs_bSince # -1
                    \/ /\ ep_b_pressed' /\ obs_bSince # -1 /\ obs_bHolds = 0
                       /\ now - obs_bSince >= EP_HOLD_THRESHOLD_MS
              cvT == ep_cv_last' # ep_cv_last
              aEvents == {"A_PRESS", "A_TAP", "A_HOLD", "A_RELEASE",
                          "MODE_CHANGE"}
              bEvents == {"B_PRESS", "B_TAP", "B_HOLD", "B_RELEASE",
                          "MENU_ENTER"}
          IN  /\ aT => ep_event' \in aEvents
              /\ (~aT /\ bT) => ep_event' \in bEvents
              /\ (~aT /\ ~bT /\ cvT) =>
                    ep_event' = (IF ep_cv_last' THEN "CV_RISE" ELSE "CV_FALL")
              /\ (~aT /\ ~bT /\ ~cvT) => ep_event' = "NONE"
              /\ aRise => ep_event' = "A_PRESS"
              /\ (~aT /\ bRise) => ep_event' = "B_PRESS" ]_vars

\* A, B and the CV input went high in one update, which returned A_PRESS.
C15_Witness ==
    /\ op = "event" /\ ep_event = "A_PRESS"
    /\ obs_aSince = now /\ obs_bSince = now /\ ep_cv_last /\ now = 1

C17_ReleaseClass ==
    [][ op' = "event" =>
          LET aFall == ~ep_a_pressed' /\ obs_aSince # -1
              bFall == ~ep_b_pressed' /\ obs_bSince # -1
          IN  /\ aFall => ep_event' =
                    (IF obs_aHolds = 0 THEN "A_TAP" ELSE "A_RELEASE")
              /\ ep_event' \in {"A_TAP", "A_RELEASE"} => aFall
              /\ ep_event' = "B_TAP" => (bFall /\ obs_bHolds = 0)
              /\ ep_event' = "B_RELEASE" => (bFall /\ obs_bHolds >= 1)
              /\ bFall => ep_event' \notin {"NONE", "CV_RISE", "CV_FALL"}
              /\ ep_a_holding <=> obs_aHolds >= 1
              /\ ep_b_holding <=> obs_bHolds >= 1 ]_vars

\* B was released after its HOLD-class event and the update returned
\* B_RELEASE.
C17_Witness ==
    /\ op = "event" /\ ep_event = "B_RELEASE" /\ ~ep_b_pressed
    /\ now >= EP_HOLD_THRESHOLD_MS

\* C18: the HOLD-class event of the second button is the combo event exactly
\* when the other button was pressed strictly before it, has had its own
\* HOLD-class event and is still down: MENU_ENTER in place of B_HOLD when A
\* was first, MODE_CHANGE in place of A_HOLD when B was first; otherwise (the
\* first button released, pressed later, or not yet holding) it is the
\* plain HOLD.
C18_Combo ==
    [][ op' = "event" =>
          LET aFirstHeld == /\ ep_a_pressed' /\ obs_aSince # -1
                            /\ obs_aHolds >= 1 /\ obs_aSince < obs_bSince
              bFirstHeld == /\ ep_b_pressed' /\ obs_bSince # -1
                            /\ obs_bHolds >= 1 /\ obs_bSince < obs_aSince
              aDue == /\ ep_a_pressed' /\ obs_aSince # -1 /\ obs_aHolds = 0
                      /\ now - obs_aSince >= EP_HOLD_THRESHOLD_MS
              bDue == /\ ep_b_pressed' /\ obs_bSince # -1 /\ obs_bHolds = 0
                      /\ now - obs_bSince >= EP_HOLD_THRESHOLD_MS
          IN  /\ (aDue /\ bFirstHeld) => ep_event' = "MODE_CHANGE"
              /\ (aDue /\ ~bFirstHeld) => ep_event' = "A_HOLD"
              /\ (bDue /\ aFirstHeld) => ep_event' = "MENU_ENTER"
              /\ ep_event' = "MENU_ENTER" => (bDue /\ aFirstHeld)
              /\ ep_event' = "MODE_CHANGE" => (aDue /\ bFirstHeld)
              /\ ep_event' = "B_HOLD" => (bDue /\ ~aFirstHeld) ]_vars

\* A went down, then B; A had its HOLD, and the update in which B had been
\* down for the threshold returned MENU_ENTER.
C18_Witness ==
    /\ op = "event" /\ ep_event = "MENU_ENTER"
    /\ obs_aHolds = 1 /\ obs_bHolds = 1
    /\ obs_aSince < obs_bSince
    /\ now - obs_bSince = EP_HOLD_THRESHOLD_MS

\* ------------------------------------------------------------------ FSM claims

\* C19: a call of fsm_process_event on an active FSM for which some row
\* matches (its event is the event given and its from_state is current_state
\* or FSM_ANY_STATE, whatever the current state) executes exactly one row,
\* the first such row in declaration order: only that row's action runs and
\* only its to_state takes effect, also when it is action-only and a later
\* matching row would change the state.
C19_FirstMatch ==
    [][ (op' = "process_event" /\ fsm_active) =>
          LET M == { i \in 1..Len(FsmTransitions) :
                       /\ FsmTransitions[i].event = fsm_event'
                       /\ FsmTransitions[i].from
                             \in {fsm_current_state, FSM_ANY_STATE} }
          IN  M # {} =>
                LET f == CHOOSE i \in M : \A j \in M : i <= j
                    row == FsmTransitions[f]
                    acts == { k \in 1..Len(fsm_log') :
                                fsm_log'[k].hook = "action" }
                IN  /\ obs_fsmRow' = f
                    /\ fsm_current_state' =
                          (IF row.to = FSM_NO_TRANSITION
                           THEN fsm_current_state ELSE row.to)
                    /\ fsm_ret' = (row.to # FSM_NO_TRANSITION)
                    /\ \A k \in acts : fsm_log'[k].id = row.action
                    /\ Cardinality(acts) = (IF row.action = 0 THEN 0 ELSE 1)
        ]_vars

\* In state 0 the event 4 matched the action-only row 4 and the later row 6,
\* which leads to state 1: the action of row 4 ran and the state is still 0.
C19_Witness ==
    /\ op = "process_event" /\ fsm_active /\ fsm_event = 4
    /\ obs_fsmRow = 4 /\ fsm_current_state = 0 /\ ~fsm_ret
    /\ fsm_log = << [hook |-> "action", id |-> 1, cur |-> 0] >>

\* C20: a match that changes the state runs, each once and in this order,
\* the exit hook of the old state, the action of the row, the assignment
\* current_state = to_state and the entry hook of the new state (every hook
\* that is defined: a row may have no action, a state id that is not in the
\* states table has no hooks), and returns true: the exit hook and the
\* action still see the old state as current_state, the entry hook sees the
\* new one.
C20_TransitionOrder ==
    [][ ( /\ op' = "process_event" /\ obs_fsmRow' # 0
          /\ FsmTransitions[obs_fsmRow'].to # FSM_NO_TRANSITION ) =>
          LET row == FsmTransitions[obs_fsmRow']
              old == fsm_current_state
              Has(id, h) == \E k \in 1..Len(FsmStates) :
                               FsmStates[k].id = id /\ FsmStates[k][h]
              exit == IF Has(old, "on_exit")
                      THEN << [hook |-> "exit", id |-> old, cur |-> old] >>
                      ELSE << >>
              act == IF row.action = 0 THEN << >>
                     ELSE << [hook |-> "action", id |-> row.action,
                              cur |-> old] >>
              enter == IF Has(row.to, "on_enter")
                       THEN << [hook |-> "enter", id |-> row.to,
                                cur |-> row.to] >>
                       ELSE << >>
          IN  /\ fsm_ret'
              /\ fsm_current_state' = row.to
              /\ fsm_log' = exit \o act \o enter ]_vars

\* The row from state 1 to state 2 with an action was executed: exit of 1,
\* the action, then the entry of 2 with current_state already 2.
C20_Witness ==
    /\ op = "process_event" /\ obs_fsmRow = 2 /\ fsm_ret
    /\ fsm_current_state = 2
    /\ fsm_log = << [hook |-> "exit", id |-> 1, cur |-> 1],
                    [hook |-> "action", id |-> 1, cur |-> 1],
                    [hook |-> "enter", id |-> 2, cur |-> 2] >>

\* C21: an event that matches no row for the current state of an active FSM
\* leaves the FSM unchanged: fsm_process_event returns false, current_state
\* and active keep their values, and no hook is called.
C21_NoMatch ==
    [][ ( /\ op' = "process_event" /\ fsm_active
          /\ \A i \in 1..Len(FsmTransitions) :
                \/ FsmTransitions[i].event # fsm_event'
                \/ FsmTransitions[i].from
                      \notin {fsm_current_state, FSM_ANY_STATE} ) =>
          /\ ~fsm_ret'
          /\ fsm_current_state' = fsm_current_state
          /\ fsm_active' = fsm_active
          /\ fsm_log' = << >> ]_vars

\* In state 0 the event 2, which only the row from state 1 handles, was
\* processed: no row was executed and the call returned false.
C21_Witness ==
    /\ op = "process_event" /\ fsm_active /\ fsm_event = 2
    /\ fsm_current_state = 0 /\ obs_fsmRow = 0 /\ ~fsm_ret
    /\ fsm_log = << >>

\* C22: a call whose first matching row is action-only (to_state is
\* FSM_NO_TRANSITION) runs that row's action exactly once, calls no exit or
\* entry hook, leaves current_state unchanged and returns false.
C22_ActionOnly ==
    [][ (op' = "process_event" /\ fsm_active) =>
          LET M == { i \in 1..Len(FsmTransitions) :
                       /\ FsmTransitions[i].event = fsm_event'
                       /\ FsmTransitions[i].from
                             \in {fsm_current_state, FSM_ANY_STATE} }
          IN  \A f \in M :
                ( /\ \A j \in M : f <= j
                  /\ FsmTransitions[f].to = FSM_NO_TRANSITION ) =>
                  /\ ~fsm_ret'
                  /\ fsm_current_state' = fsm_current_state
                  /\ fsm_log' =
                        IF FsmTransitions[f].action = 0 THEN << >>
                        ELSE << [hook |-> "action",
                                 id |-> FsmTransitions[f].action,
                                 cur |-> fsm_current_state] >>
        ]_vars

\* The action-only row for the event 4 was executed in state 0: one hook
\* call, the action, and no change of state.
C22_Witness ==
    /\ op = "process_event" /\ fsm_active /\ obs_fsmRow = 4
    /\ FsmTransitions[obs_fsmRow].to = FSM_NO_TRANSITION
    /\ Len(fsm_log) = 1 /\ fsm_log[1].hook = "action"
    /\ fsm_current_state = 0 /\ ~fsm_ret

\* ----------------------------------------------------------- null-handle claim

\* C23 as stated: every public operation of Button, CVOutput,
\* EventProcessor, FSM and the mode handlers called with a null handle is a
\* no-op: it does not fault, changes no state and yields the neutral default
\* (false, EVT_NONE, state 0, zeroed LED feedback; nothing for a void
\* operation).
C23_NullSafe ==
    [][ op' = "null_call" =>
          /\ null_outcome' = "noop"
          /\ null_ret' \in {"false", "EVT_NONE", "0", "zeroed", "void"}
          /\ UNCHANGED notNull ]_vars

\* C24 as stated: an identifier that is not in the states table never
\* becomes the current state; fsm_set_state with such an identifier leaves
\* the FSM in the initial state.
C24_StateInTable ==
    fsm_current_state \in { FsmStates[i].id : i \in 1..Len(FsmStates) }

\* ------------------------------------------------- mode handler dispatch claim

\* C25: mode_handler_init with null settings, or with a trigger / divide /
\* cycle index at or beyond the size of its table, stores
\* TRIGGER_PULSE_DEFAULT / DIVIDE_DEFAULT / CYCLE_DEFAULT_PERIOD_MS; and with
\* a mode id outside the five modes, init, process and get_led do what they
\* do for MODE_GATE: init clears the Gate output state and nothing else,
\* process makes the output follow the input and reports whether it
\* changed, get_led gives the Gate colour and the brightness of the Gate
\* output state.
C25_Fallback ==
    [][ LET outside == sel_mode' \notin MODE_GATE..MODE_CYCLE
            absent == ~sel_settings'.present
        IN  /\ op' = "mode_handler_init" =>
                /\ (sel_mode' = MODE_TRIGGER
                      /\ (absent \/ sel_settings'.trigger_pulse_idx
                                      >= TRIGGER_PULSE_COUNT))
                     => trig_pulse_duration_ms' = TRIGGER_PULSE_DEFAULT
                /\ (sel_mode' = MODE_DIVIDE
                      /\ (absent \/ sel_settings'.divide_divisor_idx
                                      >= DIVIDE_DIVISOR_COUNT))
                     => div_divisor' = DIVIDE_DEFAULT
                /\ (sel_mode' = MODE_CYCLE
                      /\ (absent \/ sel_settings'.cycle_tempo_idx
                                      >= CYCLE_TEMPO_COUNT))
                     => cyc_period_ms' = CYCLE_DEFAULT_PERIOD_MS
                /\ outside =>
                     /\ ~gate_output_state'
                     /\ UNCHANGED << trigVars, togVars, divVars, cycVars >>
            /\ (outside /\ op' \notin {"mode_handler_init",
                                        "mode_handler_get_led", "advance"}) =>
                /\ op' = "gate"
                /\ mh_output' = mh_input'
                /\ gate_output_state' = mh_input'
                /\ mh_changed' = (gate_output_state # mh_input')
                /\ UNCHANGED << trigVars, togVars, divVars, cycVars >>
            /\ (outside /\ op' = "mode_handler_get_led") =>
                /\ sel_fb'.mode_colour = "gate"
                /\ sel_fb'.activity_brightness
                     = (IF gate_output_state THEN 255 ELSE 0)
                /\ UNCHANGED << trigVars, modeAll >> ]_vars

\* A Trigger context initialised with the index TRIGGER_PULSE_COUNT runs a
\* pulse of the default length.
C25_Witness ==
    /\ sel_inits = 1
    /\ sel_mode = MODE_TRIGGER
    /\ sel_settings.present
    /\ sel_settings.trigger_pulse_idx = TRIGGER_PULSE_COUNT
    /\ trig_pulse_duration_ms = TRIGGER_PULSE_DEFAULT
    /\ op = "trigger"
    /\ trig_output

\* --------------------------------------------------- CVOutput pulse boundary

\* C26 as stated: after a rising edge at the clock e that begins a pulse,
\* every cv_output_update_pulse with clock < e + PULSE_DURATION_MS leaves
\* state and pulse_active true, and the first one with
\* clock >= e + PULSE_DURATION_MS leaves both false, be its input still high
\* or already low; a rising edge after that begins a new pulse of the full
\* length.
C26_PulseBoundary ==
    [][ op' = "cv_pulse" =>
          LET begins == obs_cvPrevIn' /\ ~obs_cvPrevIn /\ obs_cvEdge = -1
              running == obs_cvEdge # -1
              due == running /\ now >= obs_cvEdge + PULSE_DURATION_MS
              rises == obs_cvPrevIn' /\ ~obs_cvPrevIn
          IN  /\ (begins \/ (running /\ ~due))
                   => (cv_state' /\ cv_pulse_active')
              /\ (due /\ ~rises) => (~cv_state' /\ ~cv_pulse_active') ]_vars

\* --------------------------------------------------------- IOController claims

\* C27: the io_controller_update that sees config_action advances the mode
\* to the next one, consumes the flag and resets the CV output low (no
\* other update changes the mode); from that update until an update has
\* seen a debounced falling edge of the button the output stays low, pin and
\* output LED included; after that, an update with a new press of the
\* button drives the output high again.
C27_ModeChange ==
    [][ op' = "io_update" =>
          /\ obs_ioSaw' => /\ io_mode' = (io_mode + 1) % MODE_COUNT
                           /\ ~config_action'
                           /\ ~cv_state' /\ ~cv_pulse_active'
          /\ ~obs_ioSaw' => io_mode' = io_mode
          /\ (obs_ioWait \/ obs_ioSaw')
               => (~cv_state' /\ ~cv_pin' /\ ~io_led_out')
          /\ (~obs_ioWait /\ ~obs_ioSaw' /\ rising_edge' /\ ~cv_state)
               => (cv_state' /\ cv_pin' /\ io_led_out') ]_vars

\* After a mode change to Pulse and the release of the button, a new press
\* has driven the output high.
C27_Witness ==
    /\ op = "io_update"
    /\ obs_ioChanges = 1
    /\ io_mode = MODE_PULSE
    /\ ~obs_ioWait
    /\ ~io_ignore_pressed
    /\ rising_edge
    /\ cv_state

\* C28 as stated: config actions take the controller from MODE_GATE to
\* MODE_PULSE, then to MODE_TOGGLE, then back to MODE_GATE, where the mode
\* LEDs show the Gate pattern, top on and bottom off.
C28_ModeCycle ==
    op = "io_update" =>
        /\ obs_ioChanges = 0 => io_mode = MODE_GATE
        /\ obs_ioChanges = 1 => io_mode = MODE_PULSE
        /\ obs_ioChanges = 2 => io_mode = MODE_TOGGLE
        /\ obs_ioChanges = 3 => (io_mode = MODE_GATE /\ io_led_top
                                 /\ ~io_led_bottom)

\* ------------------------------------------------------ inactive FSM claims

\* C29: on an FSM that is not active, fsm_process_event returns false and
\* leaves current_state as it is, fsm_update calls no on_update hook and
\* fsm_stop calls no exit hook; on a null FSM the three return at once,
\* fsm_process_event with false; fsm_init calls no hook and leaves the FSM
\* inactive in the initial state.
C29_InactiveInert ==
    [][ /\ (op' = "process_event" /\ ~fsm_active)
             => /\ ~fsm_ret'
                /\ fsm_current_state' = fsm_current_state
                /\ fsm_log' = << >>
                /\ ~fsm_active'
        /\ (op' = "fsm_update" /\ ~fsm_active)
             => /\ fsm_log' = << >>
                /\ fsm_current_state' = fsm_current_state
                /\ ~fsm_active'
        /\ (op' = "fsm_stop" /\ ~fsm_active)
             => /\ fsm_log' = << >>
                /\ fsm_current_state' = fsm_current_state
                /\ ~fsm_active'
        /\ (op' = "null_call"
            /\ null_op' \in {"fsm_process_event", "fsm_update", "fsm_stop"})
             => /\ null_outcome' = "noop"
                /\ null_op' = "fsm_process_event" => null_ret' = "false"
                /\ UNCHANGED fsmVars
        /\ op' = "fsm_init"
             => /\ fsm_log' = << >>
                /\ ~fsm_active'
                /\ fsm_current_state' = fsm_initial_state' ]_vars

\* A second fsm_stop in state 1, whose exit hook is defined, has called no
\* hook.
C29_Witness ==
    /\ op = "fsm_stop"
    /\ ~fsm_active
    /\ fsm_current_state = 1
    /\ fsm_log = << >>

\* C30: fsm_reset and fsm_set_state on an active FSM call the exit hook of
\* the current state (if it has one) while it is still current, then the
\* entry hook of the target (if it has one) with the target current, and
\* run no transition action; on an inactive FSM they call no hook. Either
\* way current_state becomes the target, initial_state for fsm_reset and
\* the given id for fsm_set_state, whatever the transition table holds.
C30_Bypass ==
    [][ (op' \in {"fsm_reset", "fsm_set_state"}) =>
          LET Has(id, h) ==
                  \E i \in 1..Len(FsmStates) :
                      FsmStates[i].id = id /\ FsmStates[i][h]
              from == fsm_current_state
              to == fsm_current_state'
              exit == IF Has(from, "on_exit")
                      THEN << [hook |-> "exit", id |-> from, cur |-> from] >>
                      ELSE << >>
              enter == IF Has(to, "on_enter")
                       THEN << [hook |-> "enter", id |-> to, cur |-> to] >>
                       ELSE << >>
          IN  /\ op' = "fsm_reset" => to = fsm_initial_state
              /\ op' = "fsm_set_state" => to = obs_fsmTarget'
              /\ fsm_log' = IF fsm_active THEN exit \o enter ELSE << >>
              /\ fsm_active' = fsm_active
              /\ fsm_initial_state' = fsm_initial_state ]_vars

\* fsm_set_state on an active FSM has gone from state 0 to state 2, which
\* no row of the table leads to from state 0, with the exit and entry hooks.
C30_Witness ==
    /\ op = "fsm_set_state"
    /\ fsm_active
    /\ obs_fsmTarget = 2
    /\ fsm_current_state = 2
    /\ Len(fsm_log) = 2
    /\ fsm_log[1] = [hook |-> "exit", id |-> 0, cur |-> 0]
    /\ fsm_log[2] = [hook |-> "enter", id |-> 2, cur |-> 2]

\* C31: Cycle LED envelope.  In every millisecond in which cycle_process has
\* run, phase and the activity brightness that cycle_get_led reports lie in
\* 0..255, and the brightness follows a triangle over the output period: it
\* rises linearly from 0 at the low-to-high toggle to the full value at the
\* high-to-low toggle and falls linearly back while the output is low.  The
\* integer rounding of the phase (at most 2 steps of brightness) is allowed.
C31_Envelope ==
    (mh_mode = "cycle" /\ ~mh_pending /\ obs_cycRise # -1) =>
        LET pos == now - obs_cycRise
            b == LedFeedback("cycle").activity_brightness
            ideal == IF cyc_output_state
                     THEN (255 * pos) \div CycleHalfPeriod
                     ELSE (255 * (2 * CycleHalfPeriod - pos))
                              \div CycleHalfPeriod
        IN  /\ cyc_phase \in 0..255
            /\ b \in 0..255
            /\ b - ideal \in -2..2

\* C32: first-edge suppression and deferral.  As long as no rising edge has
\* been reported since button_init or button_reset (the edge timestamps are
\* still 0), a button_update that samples the pin high reports the press
\* (rising_edge and pressed) exactly if the clock is past EDGE_DEBOUNCE_MS:
\* inside the window the press is not reported, and with the pin still high
\* the first update after the window reports it.
C32_FirstEdge ==
    [][ (op' = "update" /\ obs_lastRise = -1 /\ raw_state') =>
          /\ (rising_edge' <=> now' > EDGE_DEBOUNCE_MS)
          /\ (pressed' <=> now' > EDGE_DEBOUNCE_MS) ]_vars

\* A press sampled at the last millisecond of the window and not reported.
C32_Witness ==
    /\ op = "update" /\ raw_state /\ ~pressed /\ ~rising_edge
    /\ obs_lastRise = -1 /\ last_rise_time = 0
    /\ now = EDGE_DEBOUNCE_MS

\* ------------------------------------------------------- two-Button claim

\* C33: Button instances are independent.  With a second Button that is
\* updated in the same passes and has never been pressed, the first Button
\* completing TAPS_TO_CHANGE taps, each within TAP_TIMEOUT_MS of the one
\* before, and holding the last one for HOLD_TIME_MS has its config_action
\* set, as it would were the second Button never updated.
C33_Independent ==
    [][ (/\ op' = "update"
         /\ ~b_pressed' /\ b_last_rise_time' = 0
         /\ obs_run' >= TAPS_TO_CHANGE
         /\ pressed'
         /\ now' - obs_lastRise' >= HOLD_TIME_MS) => config_action' ]_vars

\* ------------------------------------------------------ repeated gesture

\* C34: one completed gesture sets config_action exactly once.  With the
\* flag down (never raised, or consumed), a button_update raises it exactly
\* if it is the first update at least HOLD_TIME_MS after the last of
\* TAPS_TO_CHANGE or more taps in a row with the button still pressed: not
\* again while the button stays held, not after the release, and again
\* when a new sequence of taps and a hold has been performed.
C34_OncePerGesture ==
    [][ (op' = "update" /\ ~config_action) =>
          (config_action' <=>
             /\ obs_run' >= TAPS_TO_CHANGE
             /\ pressed'
             /\ now' - obs_lastRise' >= HOLD_TIME_MS
             /\ ~obs_done) ]_vars

\* The second gesture has just raised the flag again.
C34_Witness ==
    /\ op = "update" /\ config_action /\ pressed
    /\ obs_raised = 2
    /\ obs_run = TAPS_TO_CHANGE
    /\ now - obs_lastRise = HOLD_TIME_MS

\* ------------------------------------------------------- FSM hook balance

\* C35: entry/exit balance.  Counted from fsm_init, the entry-hook calls
\* minus the exit-hook calls are 1 while the FSM is active and 0 while it
\* is not, and the state entered last is current_state.  Stated call by
\* call: every fsm_start, fsm_process_event, fsm_reset, fsm_set_state and
\* fsm_stop between states of the table changes the difference by exactly
\* the change of active, and the last entry hook it calls is the one of the
\* state it leaves in current_state; a call without hooks leaves
\* current_state alone while the FSM is active.
C35_Balance ==
    [][ (/\ op' \in { "fsm_start", "process_event", "fsm_reset",
                      "fsm_set_state", "fsm_stop" }
         /\ FindStateFrom(1, fsm_current_state) # 0
         /\ FindStateFrom(1, fsm_current_state') # 0) =>
          LET log == fsm_log'
              enters == { i \in DOMAIN log : log[i].hook = "enter" }
              exits == { i \in DOMAIN log : log[i].hook = "exit" }
              was == IF fsm_active THEN 1 ELSE 0
              is == IF fsm_active' THEN 1 ELSE 0
          IN  /\ Cardinality(enters) - Cardinality(exits) = is - was
              /\ \A i \in enters :
                     (\A j \in enters : j <= i) =>
                         log[i].id = fsm_current_state'
              /\ (fsm_active /\ enters = {}) =>
                     (fsm_current_state' = fsm_current_state \/ ~fsm_active')
        ]_vars

\* ------------------------------------------- fsm_process_event's result

C37_ChangedIffOutput ==
    [][ /\ op' = "gate" =>
             /\ mh_output' = gate_output_state'
             /\ mh_changed' <=> (mh_output' # gate_output_state)
        /\ op' = "trigger" =>
             /\ trig_output' = trig_output_state'
             /\ trig_changed' <=> (trig_output' # trig_output_state)
        /\ op' = "toggle" =>
             /\ mh_output' = tog_output_state'
             /\ mh_changed' <=> (mh_output' # tog_output_state)
        /\ op' = "divide" =>
             /\ mh_output' = div_output_state'
             /\ mh_changed' <=> (mh_output' # div_output_state)
        /\ op' = "cycle" =>
             /\ mh_output' = cyc_output_state'
             /\ mh_changed' <=> (mh_output' # cyc_output_state) ]_vars

\* ------------------------------------------------------------ clock wrap

\* C38: elapsed-time checks are wrap-safe.  Measured by an observer's
\* clock that does not wrap, also for pulses and half-periods that start
\* before the counter wraps to 0: the Trigger output is high exactly during
\* the pulse duration after the last rising edge; the Divide output exactly
\* during OUTPUT_PULSE_MS after the last edge that completed the count; the
\* Cycle output exactly during the first half-period after each of its
\* low-to-high toggles, the next one following after two half-periods; and
\* cv_output_update_pulse returns high exactly within PULSE_DURATION_MS
\* after the last rising edge.
C38_WrapSafe ==
    LET Unwrap(r) == IF r >= obs_clock0 THEN r - obs_clock0
                     ELSE r + (ClockModulus - obs_clock0)
        since(r) == obs_ticks - Unwrap(r)
    IN  /\ Unwrap(now) = obs_ticks
        /\ (mh_mode = "trigger" /\ ~trig_pending) =>
               (trig_output <=> /\ obs_trigRise # -1
                                /\ since(obs_trigRise) < trig_pulse_duration_ms)
        /\ (mh_mode = "divide" /\ ~mh_pending) =>
               (mh_output <=> /\ obs_divNth # -1
                              /\ since(obs_divNth) < OUTPUT_PULSE_MS)
        /\ (mh_mode = "cycle" /\ ~mh_pending /\ obs_cycRise # -1) =>
               /\ mh_output <=> since(obs_cycRise) < CycleHalfPeriod
               /\ since(obs_cycRise) < 2 * CycleHalfPeriod
        /\ op = "cv_pulse" =>
               (cv_state <=> /\ obs_cvRise # -1
                             /\ since(obs_cvRise) < PULSE_DURATION_MS)

\* A Trigger pulse that began before the wrap has ended after it, exactly
\* its duration after the rising edge.
C38_Witness ==
    /\ mh_mode = "trigger" /\ ~trig_pending /\ ~trig_output
    /\ obs_trigRise > now
    /\ obs_ticks - (obs_trigRise - obs_clock0) = trig_pulse_duration_ms


\* C39: hal_millis under interrupt interleaving. As long as no more than
\* 65535 ticks have passed between two reads of the low word, every value
\* hal_millis returns is the number of ticks counted when it read the low
\* word (below 2^32 in every behaviour here), and is not smaller than the
\* value returned before it.
C39_MillisCounts ==
    (op = "millis" /\ ~obs_millisLate)
        => /\ millis_ret = obs_millisAtRead
           /\ obs_millisPrev <= millis_ret
\* A call returns after the low word has wrapped twice, a tick having been
\* counted between sei() and the return.
C39_Witness ==
    /\ op = "millis"
    /\ ~obs_millisLate
    /\ timer0_millis_high = 2
    /\ obs_millisPrev > 0
    /\ obs_millisTotal > obs_millisAtRead
    /\ millis_ret = obs_millisAtRead


\* C40: settings persistence round trip. An app_init_run without a factory
\* reset request that directly follows app_init_save_settings of a record
\* with mode < MODE_COUNT returns APP_INIT_OK with the caller's record equal
\* to the saved one; an app_init_run without a factory reset request that
\* finds a wrong magic number, schema version or checksum returns
\* APP_INIT_OK_DEFAULTS with the defaults.
C40_RoundTrip ==
    [][ (op' = "app_init_run" /\ ~app_reset')
          => /\ (op = "app_init_save_settings" /\ obs_saved.mode < MODE_COUNT)
                  => /\ app_result' = "APP_INIT_OK"
                     /\ app_settings' = obs_saved
             /\ (\/ EepromReadWord(eeprom, EEPROM_MAGIC_ADDR)
                       # EEPROM_MAGIC_VALUE
                 \/ eeprom[EEPROM_SCHEMA_ADDR] # SETTINGS_SCHEMA_VERSION
                 \/ eeprom[EEPROM_CHECKSUM_ADDR]
                       # calculate_checksum(EepromSettings(eeprom)))
                  => /\ app_result' = "APP_INIT_OK_DEFAULTS"
                     /\ app_settings' = AppDefaults ]_vars

====
